---- MODULE Spec2Model ----
(***************************************************************************)
(* A model of gqlms (GraphQL mutation authorization tester), final variant *)
(* of src/main.go (lines 618-1023): main parses the request file           *)
(* (parseRequestFile) and the -unauth list, asks the user whether to go on *)
(* when a named header is missing, fetches the mutation catalog with one   *)
(* introspection request (getMutations), removes the -unauth headers from  *)
(* the header map, and then testMutations sends one request per mutation,  *)
(* classifies the response (containsDeniedMessage), appends the mutation's *)
(* name to allowedMutations.txt or unallowedMutations.txt, sleeps, and     *)
(* finally prints a summary.                                               *)
(*                                                                         *)
(* Byte strings the code inspects (the lines of the request file, header   *)
(* names, the -unauth value, the query text, response bodies) are          *)
(* sequences of one-character strings, so that the functions of package    *)
(* strings and http.CanonicalHeaderKey are computed as the code computes   *)
(* them.  The command line, the request file, the user at the prompt and   *)
(* the server are the environment: Init draws the command line and the     *)
(* file, the server's replies are drawn from ServerReplies (mutation       *)
(* requests) and SchemaReplies (the introspection request).                *)
(*                                                                         *)
(* Spec is the final variant.  Spec_v2 is the variant of lines 343-615     *)
(* (its parseRequestFile and its testMutations differ), and SpecKillable   *)
(* is the final variant with a process kill and fairness, for termination. *)
(***************************************************************************)
EXTENDS Integers, Sequences, FiniteSets, Bags, TLC

(***************************************************************************)
(* Bounds of the model.                                                    *)
(***************************************************************************)
\* The longest mutation catalog the introspection response may carry.
MaxMutations == 2

(***************************************************************************)
(* Byte strings.                                                           *)
(***************************************************************************)
UpperToLower ==
    ("A" :> "a") @@ ("B" :> "b") @@ ("C" :> "c") @@ ("D" :> "d") @@ ("E" :> "e") @@
    ("F" :> "f") @@ ("G" :> "g") @@ ("H" :> "h") @@ ("I" :> "i") @@ ("J" :> "j") @@
    ("K" :> "k") @@ ("L" :> "l") @@ ("M" :> "m") @@ ("N" :> "n") @@ ("O" :> "o") @@
    ("P" :> "p") @@ ("Q" :> "q") @@ ("R" :> "r") @@ ("S" :> "s") @@ ("T" :> "t") @@
    ("U" :> "u") @@ ("V" :> "v") @@ ("W" :> "w") @@ ("X" :> "x") @@ ("Y" :> "y") @@
    ("Z" :> "z")

\* strings.ToLower, one character.
ToLowerChar(c) == IF c \in DOMAIN UpperToLower THEN UpperToLower[c] ELSE c

\* strings.ToLower.
ToLower(s) == [i \in 1..Len(s) |-> ToLowerChar(s[i])]

\* strings.Contains(s, substr).
Contains(s, substr) ==
    \E i \in 0..(Len(s) - Len(substr)) : SubSeq(s, i + 1, i + Len(substr)) = substr

(***************************************************************************)
(* The string functions main and parseRequestFile use, on byte strings.    *)
(***************************************************************************)
\* The inverse of UpperToLower.
LowerToUpper ==
    ("a" :> "A") @@ ("b" :> "B") @@ ("c" :> "C") @@ ("d" :> "D") @@ ("e" :> "E") @@
    ("f" :> "F") @@ ("g" :> "G") @@ ("h" :> "H") @@ ("i" :> "I") @@ ("j" :> "J") @@
    ("k" :> "K") @@ ("l" :> "L") @@ ("m" :> "M") @@ ("n" :> "N") @@ ("o" :> "O") @@
    ("p" :> "P") @@ ("q" :> "Q") @@ ("r" :> "R") @@ ("s" :> "S") @@ ("t" :> "T") @@
    ("u" :> "U") @@ ("v" :> "V") @@ ("w" :> "W") @@ ("x" :> "X") @@ ("y" :> "Y") @@
    ("z" :> "Z")

ToUpperChar(c) == IF c \in DOMAIN LowerToUpper THEN LowerToUpper[c] ELSE c

\* strings.HasPrefix(s, prefix).
HasPrefix(s, prefix) == Len(s) >= Len(prefix) /\ SubSeq(s, 1, Len(prefix)) = prefix

\* unicode.IsSpace, for the characters a scanned line can hold.
IsSpace(c) == c \in {" ", "\t"}

\* strings.TrimSpace(s).
TrimSpace(s) ==
    LET keep == {i \in 1..Len(s) : ~IsSpace(s[i])}
    IN  IF keep = {} THEN << >>
        ELSE SubSeq(s, CHOOSE i \in keep : \A j \in keep : i <= j,
                       CHOOSE i \in keep : \A j \in keep : i >= j)

\* strings.Index(s, c) for a one-character c, counted from 1; 0 when absent.
Index(s, c) ==
    LET at == {i \in 1..Len(s) : s[i] = c}
    IN  IF at = {} THEN 0 ELSE CHOOSE i \in at : \A j \in at : i <= j

\* strings.Fields(s): the maximal runs of non-space characters.
RECURSIVE Fields(_)
Fields(s) ==
    LET starts == {i \in 1..Len(s) : ~IsSpace(s[i])}
    IN  IF starts = {} THEN << >>
        ELSE LET b == CHOOSE i \in starts : \A j \in starts : i <= j
                 ends == {i \in b..Len(s) : IsSpace(s[i])}
                 e == IF ends = {} THEN Len(s) + 1
                      ELSE CHOOSE i \in ends : \A j \in ends : i <= j
             IN  << SubSeq(s, b, e - 1) >> \o Fields(SubSeq(s, e, Len(s)))

\* strings.SplitN(s, sep, 2) for a one-character sep.
SplitN2(s, sep) ==
    LET i == Index(s, sep)
    IN  IF i = 0 THEN << s >> ELSE << SubSeq(s, 1, i - 1), SubSeq(s, i + 1, Len(s)) >>

\* strings.Split(s, sep) for a one-character sep.
RECURSIVE Split(_, _)
Split(s, sep) ==
    LET i == Index(s, sep)
    IN  IF i = 0 THEN << s >>
        ELSE << SubSeq(s, 1, i - 1) >> \o Split(SubSeq(s, i + 1, Len(s)), sep)

\* The bytes net/textproto accepts in a header field name (RFC 7230 token),
\* but for the apostrophe and the backquote, which no name of the model has.
ValidHeaderFieldBytes ==
    DOMAIN UpperToLower \cup DOMAIN LowerToUpper
    \cup {"0", "1", "2", "3", "4", "5", "6", "7", "8", "9"}
    \cup {"!", "#", "$", "%", "&", "*", "+", "-", ".", "^", "_", "|", "~"}

\* http.CanonicalHeaderKey(s): the first letter and every letter after a
\* hyphen in upper case, the other letters in lower case; a key with a byte
\* that is no header field byte (a space) is returned unchanged.
CanonicalHeaderKey(s) ==
    IF \E i \in 1..Len(s) : s[i] \notin ValidHeaderFieldBytes
    THEN s
    ELSE [i \in 1..Len(s) |->
             IF i = 1 \/ s[i - 1] = "-" THEN ToUpperChar(s[i]) ELSE ToLowerChar(s[i])]

(***************************************************************************)
(* Byte-string literals: request lines, header names, flag values.         *)
(***************************************************************************)
Str_POST ==
    << "P", "O", "S", "T" >>

Str_http ==
    << "h", "t", "t", "p", ":", "/", "/" >>

Str_https ==
    << "h", "t", "t", "p", "s", ":", "/", "/" >>

Scheme_https ==
    << "h", "t", "t", "p", "s" >>

Scheme_http ==
    << "h", "t", "t", "p" >>

Str_SchemeSep ==
    << ":", "/", "/" >>

Str_Host ==
    << "H", "o", "s", "t" >>

Str_Authorization ==
    << "A", "u", "t", "h", "o", "r", "i", "z", "a", "t", "i", "o", "n" >>

Str_authorization ==
    << "a", "u", "t", "h", "o", "r", "i", "z", "a", "t", "i", "o", "n" >>

Str_Cookie ==
    << "C", "o", "o", "k", "i", "e" >>

Line_PostRelative ==
    << "P", "O", "S", "T", " ", "/", "g", "r", "a", "p", "h", "q", "l", " ", "H", "T",
       "T", "P", "/", "1", ".", "1" >>

Line_PostAbsolute ==
    << "P", "O", "S", "T", " ", "h", "t", "t", "p", ":", "/", "/", "a", "p", "i", ".",
       "t", "e", "s", "t", "/", "g", "r", "a", "p", "h", "q", "l", " ", "H", "T", "T",
       "P", "/", "1", ".", "1" >>

Line_Get ==
    << "G", "E", "T", " ", "/", "g", "r", "a", "p", "h", "q", "l", " ", "H", "T", "T",
       "P", "/", "1", ".", "1" >>

Line_Host ==
    << "H", "o", "s", "t", ":", " ", "a", "p", "i", ".", "t", "e", "s", "t" >>

Line_host ==
    << "h", "o", "s", "t", ":", " ", "a", "p", "i", ".", "t", "e", "s", "t" >>

Line_Authorization ==
    << "A", "u", "t", "h", "o", "r", "i", "z", "a", "t", "i", "o", "n", ":", " ", "B",
       "e", "a", "r", "e", "r", " ", "t" >>

Line_authorization ==
    << "a", "u", "t", "h", "o", "r", "i", "z", "a", "t", "i", "o", "n", ":", " ", "B",
       "e", "a", "r", "e", "r", " ", "t" >>

Line_Cookie ==
    << "C", "o", "o", "k", "i", "e", ":", " ", "s", "i", "d", "=", "1" >>

Line_Body ==
    << "{", "\"", "q", "u", "e", "r", "y", "\"", ":", "\"", "{", " ", "m", "e", " ", "}",
       "\"", "}" >>

Flag_AuthorizationCookie ==
    << "A", "u", "t", "h", "o", "r", "i", "z", "a", "t", "i", "o", "n", ",", "C", "o",
       "o", "k", "i", "e" >>

Flag_authorization ==
    << "a", "u", "t", "h", "o", "r", "i", "z", "a", "t", "i", "o", "n" >>

(***************************************************************************)
(* The -proxy flag (ProxyFlag) and url.Parse, which sendRequest applies to *)
(* the proxy URL before it builds the request.                             *)
(***************************************************************************)
\* The URL ProxyFlag.Set stores for an empty value.
Str_DefaultProxy ==
    << "h", "t", "t", "p", ":", "/", "/", "1", "2", "7", ".", "0", ".", "0", ".", "1",
       ":", "8", "0", "8", "0" >>

\* The custom value the flag's usage text shows: http://custom:port.
Str_CustomProxy ==
    << "h", "t", "t", "p", ":", "/", "/", "c", "u", "s", "t", "o", "m", ":", "p", "o",
       "r", "t" >>

\* The ProxyFlag of a command line: the zero value when -proxy is absent
\* (args is empty), else what Set(args[1]) leaves.
ProxyFlag(args) ==
    IF args = << >> THEN [Enabled |-> FALSE, URL |-> << >>]
    ELSE IF args[1] = << >> \/ HasPrefix(args[1], << "-" >>)
    THEN [Enabled |-> TRUE, URL |-> Str_DefaultProxy]
    ELSE [Enabled |-> TRUE, URL |-> args[1]]

\* net/url getScheme: the letters, digits, +, - and . before the first
\* colon are the scheme; a colon in front is an error, and any other byte
\* (or a digit, +, -, . in front) means there is no scheme.
getScheme(rawURL) ==
    LET Letters == DOMAIN UpperToLower \cup DOMAIN LowerToUpper
        Others == {"0", "1", "2", "3", "4", "5", "6", "7", "8", "9", "+", "-", "."}
        stop == {i \in 1..Len(rawURL) :
                    /\ rawURL[i] \notin Letters
                    /\ ~(i > 1 /\ rawURL[i] \in Others)}
        i == CHOOSE k \in stop : \A j \in stop : k <= j
    IN  IF stop = {} \/ rawURL[i] # ":"
        THEN [err |-> FALSE, scheme |-> << >>, rest |-> rawURL]
        ELSE IF i = 1
        THEN [err |-> TRUE, scheme |-> << >>, rest |-> << >>]
        ELSE [err |-> FALSE, scheme |-> SubSeq(rawURL, 1, i - 1),
              rest |-> SubSeq(rawURL, i + 1, Len(rawURL))]

\* url.Parse(rawURL), for a URL without control bytes, query, fragment,
\* user information, escapes and IPv6 literal: TRUE when the error is nil.
\* parseHost: what follows the last colon of the host has to be a port,
\* digits only (validOptionalPort).
url_Parse(rawURL) ==
    LET parseHost(host) ==
            LET colons == {i \in 1..Len(host) : host[i] = ":"}
                last == CHOOSE i \in colons : \A j \in colons : i >= j
            IN  \/ colons = {}
                \/ \A i \in (last + 1)..Len(host) :
                      host[i] \in {"0", "1", "2", "3", "4", "5", "6", "7", "8", "9"}
        s == getScheme(rawURL)
        firstSegment == IF Index(s.rest, "/") = 0 THEN s.rest
                        ELSE SubSeq(s.rest, 1, Index(s.rest, "/") - 1)
        authority == LET a == SubSeq(s.rest, 3, Len(s.rest))
                     IN  IF Index(a, "/") = 0 THEN a ELSE SubSeq(a, 1, Index(a, "/") - 1)
    IN  IF s.err THEN FALSE
        ELSE IF ~HasPrefix(s.rest, << "/" >>) /\ s.scheme # << >> THEN TRUE
        ELSE IF ~HasPrefix(s.rest, << "/" >>) /\ Index(firstSegment, ":") # 0 THEN FALSE
        ELSE IF /\ s.scheme # << >> \/ ~HasPrefix(s.rest, << "/", "/", "/" >>)
                /\ HasPrefix(s.rest, << "/", "/" >>)
        THEN parseHost(authority)
        ELSE TRUE

(***************************************************************************)
(* parseRequestFile: the request file is scanned line by line; the lines   *)
(* before the first blank line give the endpoint path (the POST line) and  *)
(* the header map, the lines after it the body.                            *)
(***************************************************************************)
\* make(map[string]string).
EmptyMap == [k \in {} |-> << >>]

\* headers[key] = val.
MapSet(headers, key, val) == (key :> val) @@ headers

\* delete(headers, key).
MapDelete(headers, key) == [k \in DOMAIN headers \ {key} |-> headers[k]]

\* The locals of parseRequestFile before the first line is scanned.
ScanStart == [headers |-> EmptyMap, endpointPath |-> << >>, body |-> << >>, isBody |-> FALSE]

\* One turn of the scanner loop.
ScanLine(line, st) ==
    IF line = << >> THEN [st EXCEPT !.isBody = TRUE]
    ELSE IF st.isBody THEN [st EXCEPT !.body = @ \o line]
    ELSE IF HasPrefix(line, Str_POST)
    THEN LET parts == Fields(line)
         IN  IF Len(parts) > 1 THEN [st EXCEPT !.endpointPath = parts[2]] ELSE st
    ELSE IF Contains(line, << ":" >>)
    THEN LET parts == SplitN2(line, ":")
         IN  IF Len(parts) = 2
             THEN LET key == TrimSpace(parts[1])
                      val == TrimSpace(parts[2])
                  IN  [st EXCEPT !.headers = MapSet(@, CanonicalHeaderKey(key), val)]
             ELSE st
    ELSE st

RECURSIVE ScanLines(_, _)
ScanLines(lines, st) ==
    IF lines = << >> THEN st ELSE ScanLines(Tail(lines), ScanLine(Head(lines), st))

\* parseRequestFile's results: the zero values with an error, or the
\* endpoint, the header map and the body without one.
ParseError == [err |-> TRUE, endpoint |-> << >>, headers |-> EmptyMap, body |-> << >>]

ParseOk(endpoint, headers, body) ==
    [err |-> FALSE, endpoint |-> endpoint, headers |-> headers, body |-> body]

parseRequestFile(file, useSSL) ==
    IF ~file.readable THEN ParseError
    ELSE LET st == ScanLines(file.lines, ScanStart)
         IN  IF st.endpointPath = << >> THEN ParseError
             ELSE IF ~HasPrefix(st.endpointPath, Str_http) /\ ~HasPrefix(st.endpointPath, Str_https)
             THEN LET scheme == IF useSSL THEN Scheme_https ELSE Scheme_http
                  IN  IF Str_Host \notin DOMAIN st.headers THEN ParseError
                      ELSE ParseOk(scheme \o Str_SchemeSep \o st.headers[Str_Host] \o st.endpointPath,
                                   st.headers, st.body)
             ELSE ParseOk(st.endpointPath, st.headers, st.body)

(***************************************************************************)
(* The command lines and request files of the model (the environment).     *)
(***************************************************************************)
File(lines) == [readable |-> TRUE, lines |-> lines]

\* A request captured over HTTP/1.1, header names in canonical form.
File_Canonical ==
    File(<< Line_PostRelative, Line_Host, Line_Authorization, Line_Cookie, << >>, Line_Body >>)

\* A request captured over HTTP/2: header names in lower case.
File_LowerCase ==
    File(<< Line_PostRelative, Line_host, Line_authorization, << >>, Line_Body >>)

\* A request line with an absolute URL, and no Host header.
File_Absolute == File(<< Line_PostAbsolute, Line_Authorization, << >>, Line_Body >>)

\* A relative request line and no Host header.
File_NoHost == File(<< Line_PostRelative, Line_Authorization, << >>, Line_Body >>)

\* No POST request line.
File_NoPost == File(<< Line_Get, Line_Host, Line_Authorization, << >>, Line_Body >>)

\* os.Open fails.
File_Unreadable == [readable |-> FALSE, lines |-> << >>]

RequestFiles ==
    { File_Canonical, File_LowerCase, File_Absolute, File_NoHost, File_NoPost, File_Unreadable }

\* Values of -unauth.
UnauthFlags == { << >>, Flag_AuthorizationCookie, Flag_authorization }

\* Values of -t (seconds), -ssl and -proxy (no element: the flag is absent;
\* the empty value: -proxy= ), as triples.
PacingFlags ==
    { [delay |-> 1, useSSL |-> TRUE, proxy |-> << >>],
      [delay |-> 0, useSSL |-> FALSE, proxy |-> << << >> >>],
      [delay |-> 1, useSSL |-> TRUE, proxy |-> << Str_CustomProxy >>] }

\* What the user types at the prompt (fmt.Scanln): the words of one line.
PromptAnswers == { << "y" >>, << "Y" >>, << "n" >>, << "N" >>, << >>, << "y", "e", "s" >> }

\* main, lines 750-755: the -unauth value split at commas, each name trimmed.
UnauthList(unauthHeaders) ==
    IF unauthHeaders = << >> THEN << >>
    ELSE LET parts == Split(unauthHeaders, ",")
         IN  [i \in 1..Len(parts) |-> TrimSpace(parts[i])]

\* main, lines 758-763: the names of the list that are no key of the map.
Missing(unauthList, headers) == SelectSeq(unauthList, LAMBDA h : h \notin DOMAIN headers)

\* main, lines 790-792: every name of the list deleted from the map.
RECURSIVE DeleteAll(_, _)
DeleteAll(headers, unauthList) ==
    IF unauthList = << >> THEN headers
    ELSE DeleteAll(MapDelete(headers, Head(unauthList)), Tail(unauthList))

(***************************************************************************)
(* Byte-string literals: keywords, messages, response bodies.              *)
(***************************************************************************)
Str_unauthorized ==
    << "u", "n", "a", "u", "t", "h", "o", "r", "i", "z", "e", "d" >>

Str_forbidden ==
    << "f", "o", "r", "b", "i", "d", "d", "e", "n" >>

Str_access_denied ==
    << "a", "c", "c", "e", "s", "s", " ", "d", "e", "n", "i", "e", "d" >>

Str_restricted ==
    << "r", "e", "s", "t", "r", "i", "c", "t", "e", "d" >>

Str_UNAUTHENTICATED ==
    << "U", "N", "A", "U", "T", "H", "E", "N", "T", "I", "C", "A", "T", "E", "D" >>

Str_FORBIDDEN ==
    << "F", "O", "R", "B", "I", "D", "D", "E", "N" >>

Str_ACCESS_DENIED ==
    << "A", "C", "C", "E", "S", "S", "_", "D", "E", "N", "I", "E", "D" >>

Msg_NotAuthorized ==
    << "N", "o", "t", " ", "a", "u", "t", "h", "o", "r", "i", "z", "e", "d" >>

Msg_Unauthorized ==
    << "U", "n", "a", "u", "t", "h", "o", "r", "i", "z", "e", "d" >>

Msg_UNAUTHORIZED_ACCESS ==
    << "U", "N", "A", "U", "T", "H", "O", "R", "I", "Z", "E", "D", " ", "A", "C", "C",
       "E", "S", "S" >>

Msg_ForbiddenResource ==
    << "F", "o", "r", "b", "i", "d", "d", "e", "n", " ", "r", "e", "s", "o", "u", "r",
       "c", "e" >>

Msg_AccessDenied ==
    << "A", "c", "c", "e", "s", "s", " ", "d", "e", "n", "i", "e", "d", " ", "f", "o",
       "r", " ", "t", "h", "i", "s", " ", "r", "e", "s", "o", "u", "r", "c", "e" >>

Msg_Restricted ==
    << "O", "p", "e", "r", "a", "t", "i", "o", "n", " ", "r", "e", "s", "t", "r", "i",
       "c", "t", "e", "d" >>

Msg_UnknownArgument ==
    << "U", "n", "k", "n", "o", "w", "n", " ", "a", "r", "g", "u", "m", "e", "n", "t",
       " ", "'", "i", "n", "p", "u", "t", "'" >>

Msg_BadInput ==
    << "B", "a", "d", " ", "i", "n", "p", "u", "t" >>

Msg_InternalError ==
    << "I", "n", "t", "e", "r", "n", "a", "l", " ", "e", "r", "r", "o", "r" >>

Code_None == << >>

Code_Forbidden_lower ==
    << "f", "o", "r", "b", "i", "d", "d", "e", "n" >>

Code_BadUserInput ==
    << "B", "A", "D", "_", "U", "S", "E", "R", "_", "I", "N", "P", "U", "T" >>

Json_ErrorsOpen ==
    << "{", "\"", "e", "r", "r", "o", "r", "s", "\"", ":", "[" >>

Json_ErrorsClose ==
    << "]" >>

Json_MessageOpen ==
    << "{", "\"", "m", "e", "s", "s", "a", "g", "e", "\"", ":", "\"" >>

Json_Quote ==
    << "\"" >>

Json_ExtensionsOpen ==
    << ",", "\"", "e", "x", "t", "e", "n", "s", "i", "o", "n", "s", "\"", ":", "{", "\"",
       "c", "o", "d", "e", "\"", ":", "\"" >>

Json_ExtensionsClose ==
    << "\"", "}" >>

Json_EntryClose ==
    << "}" >>

Json_Comma ==
    << "," >>

Json_DataNull ==
    << "\"", "d", "a", "t", "a", "\"", ":", "n", "u", "l", "l" >>

Json_DataObject ==
    << "\"", "d", "a", "t", "a", "\"", ":", "{", "\"", "x", "\"", ":", "1", "}" >>

Json_ErrorsNull ==
    << "\"", "e", "r", "r", "o", "r", "s", "\"", ":", "n", "u", "l", "l" >>

Json_Open ==
    << "{" >>

Json_Close ==
    << "}" >>

Raw_Empty == << >>

Raw_HtmlForbidden ==
    << "<", "h", "t", "m", "l", ">", "F", "o", "r", "b", "i", "d", "d", "e", "n", "<",
       "/", "h", "t", "m", "l", ">" >>

Raw_PlainUnauthorized ==
    << "4", "0", "1", " ", "U", "n", "a", "u", "t", "h", "o", "r", "i", "z", "e", "d" >>

Raw_Truncated ==
    << "{", "\"", "e", "r", "r", "o", "r", "s", "\"", ":", "[", "{", "\"", "m", "e", "s",
       "s" >>

Raw_Ok ==
    << "O", "K" >>

Body_SpecValidationExample ==
    << "{", "\"", "e", "r", "r", "o", "r", "s", "\"", ":", "[", "{", "\"", "m", "e", "s",
       "s", "a", "g", "e", "\"", ":", "\"", "U", "n", "k", "n", "o", "w", "n", " ", "a",
       "r", "g", "u", "m", "e", "n", "t", " ", "'", "i", "n", "p", "u", "t", "'", "\"",
       "}", "]", "}" >>

Body_SpecAllowedExample ==
    << "{", "\"", "d", "a", "t", "a", "\"", ":", "{", "\"", "x", "\"", ":", "1", "}", ",",
       "\"", "e", "r", "r", "o", "r", "s", "\"", ":", "n", "u", "l", "l", "}" >>

(***************************************************************************)
(* The server's replies to a mutation request (the environment).  A reply  *)
(* is a transport error, or a status code with a body that is either raw   *)
(* bytes (empty, HTML, plain text, truncated JSON) or a GraphQL response   *)
(* envelope {errors, data}.  An error entry is a message and an            *)
(* extensions.code (Code_None: the entry has no extensions).               *)
(***************************************************************************)
StatusCodes == {200, 400, 401, 403, 500}

ErrorEntry(m, c) == [message |-> m, code |-> c]

ErrNotAuthorizedCoded == ErrorEntry(Msg_NotAuthorized, Str_UNAUTHENTICATED)

ErrUnknownArgument == ErrorEntry(Msg_UnknownArgument, Code_None)

ErrorEntries ==
    { ErrNotAuthorizedCoded,
      ErrorEntry(Msg_NotAuthorized, Code_None),
      ErrorEntry(Msg_Unauthorized, Code_None),
      ErrorEntry(Msg_UNAUTHORIZED_ACCESS, Code_None),
      ErrorEntry(Msg_ForbiddenResource, Code_None),
      ErrorEntry(Msg_AccessDenied, Code_None),
      ErrorEntry(Msg_Restricted, Code_None),
      ErrUnknownArgument,
      ErrorEntry(Msg_BadInput, Code_Forbidden_lower),
      ErrorEntry(Msg_BadInput, Str_ACCESS_DENIED),
      ErrorEntry(Msg_BadInput, Code_BadUserInput),
      ErrorEntry(Msg_InternalError, Code_None) }

\* The errors lists: none, one entry, or a validation error followed by
\* another entry (the denial is not the first entry).
ErrorLists ==
    { << >> } \cup { << e >> : e \in ErrorEntries }
              \cup { << ErrUnknownArgument, e >> :
                       e \in { ErrNotAuthorizedCoded,
                               ErrorEntry(Msg_Unauthorized, Code_None),
                               ErrorEntry(Msg_ForbiddenResource, Code_None) } }

DataShapes == {"absent", "null", "object"}

RawBodies == {Raw_Empty, Raw_HtmlForbidden, Raw_PlainUnauthorized, Raw_Truncated, Raw_Ok}

TransportError == [kind |-> "error"]

NoReply == [kind |-> "none"]

RawReply(s, b) == [kind |-> "raw", status |-> s, bytes |-> b]

EnvelopeReply(s, es, d) == [kind |-> "envelope", status |-> s, errors |-> es, data |-> d]

ServerReplies ==
    { RawReply(s, b) : s \in StatusCodes, b \in RawBodies }
        \cup { EnvelopeReply(s, es, d) : s \in StatusCodes, es \in ErrorLists, d \in DataShapes }

\* The JSON text of one error entry.
RenderError(e) ==
    Json_MessageOpen \o e.message \o Json_Quote
        \o (IF e.code = Code_None THEN << >>
            ELSE Json_ExtensionsOpen \o e.code \o Json_ExtensionsClose)
        \o Json_EntryClose

RECURSIVE RenderErrors(_)
RenderErrors(es) ==
    IF Len(es) = 0 THEN << >>
    ELSE IF Len(es) = 1 THEN RenderError(es[1])
    ELSE RenderError(es[1]) \o Json_Comma \o RenderErrors(Tail(es))

RenderData(d) == IF d = "null" THEN Json_DataNull ELSE Json_DataObject

\* The bytes of a reply's body.
RenderBody(r) ==
    IF r.kind = "raw" THEN r.bytes
    ELSE IF r.errors = << >>
         THEN Json_Open
              \o (IF r.data = "absent" THEN << >> ELSE RenderData(r.data) \o Json_Comma)
              \o Json_ErrorsNull \o Json_Close
         ELSE Json_ErrorsOpen \o RenderErrors(r.errors) \o Json_ErrorsClose
              \o (IF r.data = "absent" THEN << >> ELSE Json_Comma \o RenderData(r.data))
              \o Json_Close

(***************************************************************************)
(* http.Response as sendRequest returns it: the status code and a body     *)
(* reader over the fully read bytes (bytes.NewBuffer), at position 0.      *)
(***************************************************************************)
NilResp == [nil |-> TRUE]

\* bytes.NewBuffer(b) wrapped in io.NopCloser.
NewBuffer(b) == [data |-> b, pos |-> 0]

\* io.ReadAll(body): the bytes from the reader's position to the end.
ReadAll(body) == SubSeq(body.data, body.pos + 1, Len(body.data))

\* sendRequest's result for a server reply that is not a transport error.
ResponseOf(r) == [StatusCode |-> r.status, Body |-> NewBuffer(RenderBody(r))]

(***************************************************************************)
(* containsDeniedMessage: the verdict, and the response as the call leaves *)
(* it (resp.Body is replaced by a fresh reader over the bytes it read).    *)
(***************************************************************************)
containsDeniedMessage_Only403(r) ==
    IF r.StatusCode = 403
    THEN TRUE
    ELSE Contains(ToLower(ReadAll(r.Body)), Str_unauthorized)

containsDeniedMessage_AnyError(r) ==
    IF r.StatusCode = 403 \/ r.StatusCode = 401
    THEN TRUE
    ELSE \/ Contains(ToLower(ReadAll(r.Body)), Str_unauthorized)
         \/ r.StatusCode >= 400

containsDeniedMessage(r) ==
    IF r.StatusCode = 403 \/ r.StatusCode = 401
    THEN TRUE
    ELSE Contains(ToLower(ReadAll(r.Body)), Str_unauthorized)

AfterContainsDeniedMessage_Drained(r) ==
    IF r.StatusCode = 403 \/ r.StatusCode = 401
    THEN r
    ELSE [r EXCEPT !.Body.pos = Len(r.Body.data)]

AfterContainsDeniedMessage(r) ==
    IF r.StatusCode = 403 \/ r.StatusCode = 401
    THEN r
    ELSE [r EXCEPT !.Body = NewBuffer(ReadAll(r.Body))]

(***************************************************************************)
(* JSON values (the introspection response body, as encoding/json sees     *)
(* it).  JInvalid stands for bytes that are not valid JSON at all.         *)
(***************************************************************************)
JInvalid == [t |-> "invalid"]

JNull == [t |-> "null"]

JStr(s) == [t |-> "str", sv |-> s]

JNum(n) == [t |-> "num", nv |-> n]

JArr(es) == [t |-> "arr", e |-> es]

JObj(members) == [t |-> "obj", m |-> members]

\* Member k of object j; JNull when j is no object or has no member k (the
\* struct field keeps its zero value in both cases).
Field(j, k) == IF j.t = "obj" /\ k \in DOMAIN j.m THEN j.m[k] ELSE JNull

(***************************************************************************)
(* json.Unmarshal into IntrospectionResponse.  A JSON value that does not  *)
(* fit its target (a type mismatch) is skipped and the target keeps its    *)
(* zero value, while the rest is decoded; getMutations ignores the error   *)
(* Unmarshal returns.  Invalid JSON is rejected before anything is stored. *)
(***************************************************************************)
DecodeString(j) == IF j.t = "str" THEN j.sv ELSE ""

DecodeOfType(j) ==
    IF j.t = "null" THEN [nil |-> TRUE, Name |-> ""]
    ELSE [nil |-> FALSE, Name |-> DecodeString(Field(j, "name"))]

DecodeType(j) ==
    [Name |-> DecodeString(Field(j, "name")),
     Kind |-> DecodeString(Field(j, "kind")),
     OfType |-> DecodeOfType(Field(j, "ofType"))]

DecodeArg(j) ==
    [Name |-> DecodeString(Field(j, "name")), Type |-> DecodeType(Field(j, "type"))]

DecodeArgs(j) ==
    IF j.t = "arr" THEN [i \in 1..Len(j.e) |-> DecodeArg(j.e[i])] ELSE << >>

\* One element of fields, decoded into a Mutation.
DecodeMutation(j) ==
    [Name |-> DecodeString(Field(j, "name")), Args |-> DecodeArgs(Field(j, "args"))]

DecodeFields(j) ==
    IF j.t = "arr" THEN [i \in 1..Len(j.e) |-> DecodeMutation(j.e[i])] ELSE << >>

\* introspectionResp.Data.Schema.MutationType.Fields after json.Unmarshal.
Unmarshal(j) ==
    IF j.t = "invalid"
    THEN << >>
    ELSE DecodeFields(Field(Field(Field(Field(j, "data"), "__schema"), "mutationType"), "fields"))

(***************************************************************************)
(* The introspection replies (the environment).                            *)
(***************************************************************************)
NonNullTypeJson(name) ==
    JObj(("name" :> JNull) @@ ("kind" :> JStr("NON_NULL"))
         @@ ("ofType" :> JObj("name" :> JStr(name))))

ArgJson(name, type) == JObj(("name" :> JStr(name)) @@ ("type" :> type))

FieldJson(name, args) == JObj(("name" :> JStr(name)) @@ ("args" :> JArr(args)))

\* createUser(input: CreateUserInput!)
CreateUserField == FieldJson("createUser", << ArgJson("input", NonNullTypeJson("CreateUserInput")) >>)

\* deleteUser(id: ID!)
DeleteUserField == FieldJson("deleteUser", << ArgJson("id", NonNullTypeJson("ID")) >>)

CatalogFields == {CreateUserField, DeleteUserField}

FieldLists == UNION { [1..n -> CatalogFields] : n \in 0..MaxMutations }

SchemaJson(fields) ==
    JObj("data" :> JObj("__schema" :> JObj("mutationType" :> JObj("fields" :> JArr(fields)))))

\* Bodies with the shape the introspection query asks for.
WellFormedSchemas == { SchemaJson(fs) : fs \in FieldLists }

\* {"errors":[{"message":"introspection is disabled"}]}
ErrorsOnlyJson == JObj("errors" :> JArr(<< JObj("message" :> JStr("introspection is disabled")) >>))

\* {"data":null}
DataNullJson == JObj("data" :> JNull)

\* {"data":{"__schema":{"mutationType":null}}}
NoMutationTypeJson == JObj("data" :> JObj("__schema" :> JObj("mutationType" :> JNull)))

\* {"data":{"__schema":{"mutationType":{"fields":"none"}}}}
FieldsNotArrayJson ==
    JObj("data" :> JObj("__schema" :> JObj("mutationType" :> JObj("fields" :> JStr("none")))))

\* {"data":{"__schema":{"mutationType":{"fields":[{"name":"updateUser","args":"none"}]}}}}
ArgsNotArrayJson ==
    SchemaJson(<< JObj(("name" :> JStr("updateUser")) @@ ("args" :> JStr("none"))) >>)

\* {"data":{"__schema":{"mutationType":{"fields":[7]}}}}
FieldNotObjectJson == SchemaJson(<< JNum(7) >>)

\* Bodies that are not valid JSON, or valid JSON of another shape.
MalformedSchemas ==
    { JInvalid, ErrorsOnlyJson, DataNullJson, NoMutationTypeJson, FieldsNotArrayJson,
      ArgsNotArrayJson, FieldNotObjectJson }

SchemaReplies ==
    { TransportError } \cup { [kind |-> "response", json |-> j] :
                                 j \in WellFormedSchemas \cup MalformedSchemas }

(***************************************************************************)
(* buildMutationPayload: the JSON object {operationName, query, variables} *)
(* with the fixed placeholder input.  The query is kept as a byte string,  *)
(* the text fmt.Sprintf produces from its format and the mutation's name.  *)
(***************************************************************************)
Fmt_Mutation ==
    << "m", "u", "t", "a", "t", "i", "o", "n", " " >>

Fmt_DeclOpen ==
    << "(", "$", "i", "n", "p", "u", "t", ":", " " >>

Fmt_DeclClose ==
    << "!", ")", " ", "{", " " >>

Fmt_Call ==
    << "(", "i", "n", "p", "u", "t", ":", " ", "$", "i", "n", "p", "u", "t", ")", " ",
       "{", " ", "_", "_", "t", "y", "p", "e", "n", "a", "m", "e", " ", "}", " ", "}" >>

Str_Input ==
    << "I", "n", "p", "u", "t" >>

\* The bytes of the names the introspection replies of the model carry.
Bytes(name) ==
    CASE name = "createUser" -> << "c", "r", "e", "a", "t", "e", "U", "s", "e", "r" >>
      [] name = "deleteUser" -> << "d", "e", "l", "e", "t", "e", "U", "s", "e", "r" >>
      [] name = "updateUser" -> << "u", "p", "d", "a", "t", "e", "U", "s", "e", "r" >>
      [] name = "" -> << >>

\* fmt.Sprintf with the format of buildMutationPayload and its three operands.
Sprintf(a, b, c) ==
    Fmt_Mutation \o a \o Fmt_DeclOpen \o b \o Fmt_DeclClose \o c \o Fmt_Call

buildMutationPayload_EchoBody(mutation, endpoint, headers, baseRequestBody) ==
    LET inputType == Bytes(mutation.Name) \o Str_Input
        inputFields == [testField |-> "test_value"]
    IN  [operationName |-> mutation.Name,
         query |-> IF baseRequestBody = << >>
                   THEN Sprintf(Bytes(mutation.Name), inputType, Bytes(mutation.Name))
                   ELSE baseRequestBody,
         variables |-> [input |-> inputFields]]

buildMutationPayload_UndeclaredVariable(mutation, endpoint, headers, baseRequestBody) ==
    LET inputFields == [testField |-> "test_value"]
    IN  [operationName |-> mutation.Name,
         query |-> Fmt_Mutation \o Bytes(mutation.Name) \o << " ", "{", " " >>
                     \o Bytes(mutation.Name) \o Fmt_Call,
         variables |-> [input |-> inputFields]]

buildMutationPayload(mutation, endpoint, headers, baseRequestBody) ==
    LET inputType == Bytes(mutation.Name) \o Str_Input
        inputFields == [testField |-> "test_value"]
    IN  [operationName |-> mutation.Name,
         query |-> Sprintf(Bytes(mutation.Name), inputType, Bytes(mutation.Name)),
         variables |-> [input |-> inputFields]]

\* The introspection query getMutations sends.
IntrospectionQuery ==
    [query |-> "{ __schema { mutationType { fields { name args { name type { name kind ofType { name } } } } } } }"]

(***************************************************************************)
(* bufio.Writer over a file: WriteString buffers, Flush appends the        *)
(* buffered lines to the file.                                             *)
(***************************************************************************)
WriteString(buffer, line) == Append(buffer, line)

Flush(file, buffer) == file \o buffer

(***************************************************************************)
(* The state of one run.                                                   *)
(***************************************************************************)
VARIABLES
    pc,               \* where the run is: see the actions
    requestFile,      \* the file -r names
    unauthHeaders,    \* the value of -unauth
    delay,            \* the value of -t
    useSSL,           \* the value of -ssl
    proxy,            \* the ProxyFlag -proxy leaves
    endpoint,         \* main: parseRequestFile's endpoint
    headers,          \* main: the header map (the credential set)
    baseRequestBody,  \* main: parseRequestFile's body
    unauthList,       \* main: the names of -unauth
    prompted,         \* main asked whether to continue and read the answer
    response,         \* main: the answer fmt.Scanln read
    exitCode,         \* the argument of os.Exit, -1 while none was called
    schemaReply,      \* the server's reply to the introspection request
    mutations,        \* getMutations' result: the catalog, a sequence of Mutation
    allMutationsFile, \* lines of allMutations.txt
    requests,         \* every request handed to client.Do so far, in order
    pending,          \* requests handed to client.Do that have not returned
    idx,              \* testMutations: index of the mutation of this iteration
    reply,            \* the server's reply to this iteration's request
    resp,             \* sendRequest's *http.Response of this iteration (NilResp: nil)
    err,              \* sendRequest's error of this iteration (TRUE: non-nil)
    classified,       \* containsDeniedMessage was called in this iteration
    allowedCount,
    unallowedCount,
    allowedFile,      \* lines flushed to allowedMutations.txt
    unallowedFile,    \* lines flushed to unallowedMutations.txt
    allowedWriter,    \* lines allowedWriter buffers
    unallowedWriter,  \* lines unallowedWriter buffers
    sleeps,           \* the seconds of every time.Sleep so far, in order
    summary           \* the summaries printed so far

vars ==
    << pc, requestFile, unauthHeaders, delay, useSSL, proxy, endpoint, headers,
       baseRequestBody, unauthList, prompted, response, exitCode, schemaReply, mutations, allMutationsFile, requests,
       pending, idx, reply, resp, err, classified, allowedCount, unallowedCount,
       allowedFile, unallowedFile, allowedWriter, unallowedWriter, sleeps, summary >>

flags == << requestFile, unauthHeaders, delay, useSSL, proxy >>

locals == << endpoint, headers, baseRequestBody, unauthList, prompted, response >>

iteration == << reply, resp, err, classified >>

results == << allowedCount, unallowedCount, allowedFile, unallowedFile >>

writers == << allowedWriter, unallowedWriter >>

\* flag.Parse has read the command line; nothing else has happened.
Init ==
    /\ pc = "main"
    /\ requestFile \in RequestFiles
    /\ unauthHeaders \in UnauthFlags
    /\ \E p \in PacingFlags :
          delay = p.delay /\ useSSL = p.useSSL /\ proxy = ProxyFlag(p.proxy)
    /\ endpoint = << >>
    /\ headers = EmptyMap
    /\ baseRequestBody = << >>
    /\ unauthList = << >>
    /\ prompted = FALSE
    /\ response = << >>
    /\ exitCode = -1
    /\ schemaReply = NoReply
    /\ mutations = << >>
    /\ allMutationsFile = << >>
    /\ requests = << >>
    /\ pending = 0
    /\ idx = 0
    /\ reply = NoReply
    /\ resp = NilResp
    /\ err = FALSE
    /\ classified = FALSE
    /\ allowedCount = 0
    /\ unallowedCount = 0
    /\ allowedFile = << >>
    /\ unallowedFile = << >>
    /\ allowedWriter = << >>
    /\ unallowedWriter = << >>
    /\ sleeps = << >>
    /\ summary = << >>

Names(ms) == [i \in 1..Len(ms) |-> ms[i].Name]

\* sendRequest, lines 945-947: every entry of the header map is set on the
\* request (Header.Set stores a name in its canonical form).
SetHeaders(hs) ==
    [k \in {CanonicalHeaderKey(h) : h \in DOMAIN hs} |->
        hs[CHOOSE h \in DOMAIN hs : CanonicalHeaderKey(h) = k]]

\* sendRequest, lines 924-928: with -proxy, url.Parse refuses the proxy URL
\* and sendRequest returns the error before it builds a request.
InvalidProxy == proxy.Enabled /\ ~url_Parse(proxy.URL)

\* sendRequest, lines 924-949: the POST to the endpoint that client.Do gets,
\* and the proxy of the client's transport (empty: none).
NewRequest(kind, hs, payload) ==
    [kind |-> kind,
     method |-> "POST",
     endpoint |-> endpoint,
     proxy |-> IF proxy.Enabled THEN proxy.URL ELSE << >>,
     headers |-> SetHeaders(hs),
     payload |-> payload]

(***************************************************************************)
(* main, up to step 1.                                                     *)
(***************************************************************************)
\* The request file is parsed; os.Exit(1) on an error.
main_parseRequestFile ==
    /\ pc = "main"
    /\ LET r == parseRequestFile(requestFile, useSSL)
       IN  IF r.err
           THEN /\ pc' = "exit"
                /\ exitCode' = 1
                /\ UNCHANGED << endpoint, headers, baseRequestBody >>
           ELSE /\ pc' = "unauth"
                /\ endpoint' = r.endpoint
                /\ headers' = r.headers
                /\ baseRequestBody' = r.body
                /\ UNCHANGED exitCode
    /\ UNCHANGED << flags, unauthList, prompted, response, schemaReply, mutations, allMutationsFile,
                    requests, pending, idx, iteration, results, writers, sleeps, summary >>

main_ParseUnauth_StripEarly ==
    /\ pc = "unauth"
    /\ unauthList' = UnauthList(unauthHeaders)
    /\ headers' = DeleteAll(headers, unauthList')
    /\ pc' = IF Missing(unauthList', headers) # << >> THEN "prompt" ELSE "getMutations"
    /\ UNCHANGED << flags, endpoint, baseRequestBody, prompted, response, exitCode, schemaReply,
                    mutations, allMutationsFile, requests, pending, idx, iteration, results,
                    writers, sleeps, summary >>

\* The -unauth value becomes the list of names; when a name is no key of the
\* header map the user is asked whether to continue.
main_ParseUnauth ==
    /\ pc = "unauth"
    /\ unauthList' = UnauthList(unauthHeaders)
    /\ pc' = IF Missing(unauthList', headers) # << >> THEN "prompt" ELSE "getMutations"
    /\ UNCHANGED << flags, endpoint, headers, baseRequestBody, prompted, response, exitCode,
                    schemaReply,
                    mutations, allMutationsFile, requests, pending, idx, iteration, results,
                    writers, sleeps, summary >>

main_Prompt_DefaultYes ==
    /\ pc = "prompt"
    /\ prompted' = TRUE
    /\ \E answer \in PromptAnswers :
          /\ response' = answer
          /\ IF ToLower(answer) = << "y" >> \/ answer = << >>
             THEN pc' = "getMutations" /\ UNCHANGED exitCode
             ELSE IF ToLower(answer) = << "n" >>
             THEN pc' = "exit" /\ exitCode' = 0
             ELSE pc' = "exit" /\ exitCode' = 1
    /\ UNCHANGED << flags, endpoint, headers, baseRequestBody, unauthList, schemaReply,
                    mutations, allMutationsFile, requests, pending, idx, iteration, results,
                    writers, sleeps, summary >>

\* fmt.Scanln returns the user's answer: y goes on, n is os.Exit(0), anything
\* else os.Exit(1); the answer is compared in lower case.
main_Prompt ==
    /\ pc = "prompt"
    /\ prompted' = TRUE
    /\ \E answer \in PromptAnswers :
          /\ response' = answer
          /\ IF ToLower(answer) = << "y" >>
             THEN pc' = "getMutations" /\ UNCHANGED exitCode
             ELSE IF ToLower(answer) = << "n" >>
             THEN pc' = "exit" /\ exitCode' = 0
             ELSE pc' = "exit" /\ exitCode' = 1
    /\ UNCHANGED << flags, endpoint, headers, baseRequestBody, unauthList, schemaReply,
                    mutations, allMutationsFile, requests, pending, idx, iteration, results,
                    writers, sleeps, summary >>

(***************************************************************************)
(* main, step 1: getMutations.                                             *)
(***************************************************************************)
getMutations_Send_IgnoreProxyError ==
    /\ pc = "getMutations"
    /\ requests' = Append(requests, NewRequest("introspection", headers, IntrospectionQuery))
    /\ pending' = pending + 1
    /\ pc' = "awaitSchema"
    /\ UNCHANGED << flags, locals, exitCode, schemaReply, mutations, allMutationsFile, idx,
                    iteration, results, writers, sleeps, summary >>

\* getMutations hands the introspection query to sendRequest, which sends it
\* unless the proxy URL is invalid: getMutations then ends the run, os.Exit(1).
getMutations_Send ==
    /\ pc = "getMutations"
    /\ IF InvalidProxy
       THEN /\ pc' = "exit"
            /\ exitCode' = 1
            /\ UNCHANGED << requests, pending >>
       ELSE /\ requests' = Append(requests,
                                  NewRequest("introspection", headers, IntrospectionQuery))
            /\ pending' = pending + 1
            /\ pc' = "awaitSchema"
            /\ UNCHANGED exitCode
    /\ UNCHANGED << flags, locals, schemaReply, mutations, allMutationsFile, idx,
                    iteration, results, writers, sleeps, summary >>

getMutations_Return_ContinueOnError ==
    /\ pc = "awaitSchema"
    /\ \E r \in SchemaReplies :
          /\ schemaReply' = r
          /\ mutations' = (IF r.kind = "error" THEN << >> ELSE Unmarshal(r.json))
          /\ allMutationsFile' = Flush(<< >>, Names(mutations'))
          /\ pc' = "stripHeaders"
    /\ pending' = pending - 1
    /\ UNCHANGED << flags, locals, exitCode, requests, idx, iteration, results, writers,
                    sleeps, summary >>

\* sendRequest returns to getMutations: os.Exit(1) on an error; otherwise the
\* body is decoded, the names are written to allMutations.txt, and main goes on.
getMutations_Return ==
    /\ pc = "awaitSchema"
    /\ \E r \in SchemaReplies :
          /\ schemaReply' = r
          /\ IF r.kind = "error"
             THEN /\ pc' = "exit"
                  /\ exitCode' = 1
                  /\ UNCHANGED << mutations, allMutationsFile >>
             ELSE /\ mutations' = Unmarshal(r.json)
                  /\ allMutationsFile' = Flush(<< >>, Names(Unmarshal(r.json)))
                  /\ pc' = "stripHeaders"
                  /\ UNCHANGED exitCode
    /\ pending' = pending - 1
    /\ UNCHANGED << flags, locals, requests, idx, iteration, results, writers, sleeps,
                    summary >>

(***************************************************************************)
(* main, step 2: the headers of the -unauth list are removed.              *)
(***************************************************************************)
main_StripHeaders ==
    /\ pc = "stripHeaders"
    /\ headers' = IF Len(unauthList) > 0 THEN DeleteAll(headers, unauthList) ELSE headers
    /\ pc' = "testMutations"
    /\ UNCHANGED << flags, endpoint, baseRequestBody, unauthList, prompted, response, exitCode,
                    schemaReply, mutations, allMutationsFile, requests, pending, idx,
                    iteration, results, writers, sleeps, summary >>

(***************************************************************************)
(* main, step 3: testMutations.                                            *)
(***************************************************************************)
\* The counters start at 0 and both result files are created (truncated),
\* each behind a new, empty bufio.Writer.
testMutations_Enter ==
    /\ pc = "testMutations"
    /\ allowedCount' = 0
    /\ unallowedCount' = 0
    /\ allowedFile' = << >>
    /\ unallowedFile' = << >>
    /\ allowedWriter' = << >>
    /\ unallowedWriter' = << >>
    /\ idx' = 1
    /\ pc' = "loop"
    /\ UNCHANGED << flags, locals, exitCode, schemaReply, mutations, allMutationsFile,
                    requests, pending, iteration, sleeps, summary >>

testMutations_Send_ConsumesHost ==
    /\ pc = "loop"
    /\ idx <= Len(mutations)
    /\ requests' = Append(requests,
                          NewRequest("mutation", headers,
                                     buildMutationPayload(mutations[idx], endpoint, headers,
                                                          baseRequestBody)))
    /\ headers' = MapDelete(headers, Str_Host)
    /\ pending' = pending + 1
    /\ pc' = "inFlight"
    /\ UNCHANGED << flags, endpoint, baseRequestBody, unauthList, prompted, response,
                    exitCode, schemaReply, mutations, allMutationsFile, idx, iteration,
                    results, writers, sleeps, summary >>

\* The loop body up to client.Do: the payload is built and the request sent;
\* with an invalid proxy URL sendRequest returns (nil, err) at once.
testMutations_Send ==
    /\ pc = "loop"
    /\ idx <= Len(mutations)
    /\ IF InvalidProxy
       THEN /\ resp' = NilResp
            /\ err' = TRUE
            /\ pc' = "classify"
            /\ UNCHANGED << requests, pending >>
       ELSE /\ requests' = Append(requests,
                                  NewRequest("mutation", headers,
                                             buildMutationPayload(mutations[idx], endpoint,
                                                                  headers, baseRequestBody)))
            /\ pending' = pending + 1
            /\ pc' = "inFlight"
            /\ UNCHANGED << resp, err >>
    /\ UNCHANGED << flags, locals, exitCode, schemaReply, mutations, allMutationsFile, idx,
                    reply, classified, results, writers, sleeps, summary >>

sendRequest_Return_RetryOnError ==
    /\ pc = "inFlight"
    /\ \E r \in ServerReplies \cup {TransportError} :
          /\ reply' = r
          /\ IF r.kind = "error" /\ Len(requests) <= Len(mutations)
             THEN /\ requests' = Append(requests, requests[Len(requests)])
                  /\ UNCHANGED << resp, err, pending, pc >>
             ELSE /\ IF r.kind = "error"
                     THEN resp' = NilResp /\ err' = TRUE
                     ELSE resp' = ResponseOf(r) /\ err' = FALSE
                  /\ pending' = pending - 1
                  /\ pc' = "classify"
                  /\ UNCHANGED requests
    /\ UNCHANGED << flags, locals, exitCode, schemaReply, mutations, allMutationsFile,
                    idx, classified, results, writers, sleeps, summary >>

\* sendRequest returns to testMutations: (nil, err) on a transport error,
\* otherwise the response with its body fully read and rewound.
sendRequest_Return ==
    /\ pc = "inFlight"
    /\ \E r \in ServerReplies \cup {TransportError} :
          /\ reply' = r
          /\ IF r.kind = "error"
             THEN resp' = NilResp /\ err' = TRUE
             ELSE resp' = ResponseOf(r) /\ err' = FALSE
    /\ pending' = pending - 1
    /\ pc' = "classify"
    /\ UNCHANGED << flags, locals, exitCode, schemaReply, mutations, allMutationsFile,
                    requests, idx, classified, results, writers, sleeps, summary >>

RecordAs_NoFlush(denied) ==
    IF denied
    THEN /\ unallowedWriter' = WriteString(unallowedWriter, mutations[idx].Name)
         /\ unallowedCount' = unallowedCount + 1
         /\ UNCHANGED << unallowedFile, allowedFile, allowedCount, allowedWriter >>
    ELSE /\ allowedWriter' = WriteString(allowedWriter, mutations[idx].Name)
         /\ allowedCount' = allowedCount + 1
         /\ UNCHANGED << allowedFile, unallowedFile, unallowedCount, unallowedWriter >>

\* The two branches of the if statement of the loop body: WriteString
\* buffers the name, Flush moves the buffer to the file and empties it.
RecordAs(denied) ==
    IF denied
    THEN /\ unallowedFile' = Flush(unallowedFile, WriteString(unallowedWriter, mutations[idx].Name))
         /\ unallowedWriter' = << >>
         /\ unallowedCount' = unallowedCount + 1
         /\ UNCHANGED << allowedFile, allowedCount, allowedWriter >>
    ELSE /\ allowedFile' = Flush(allowedFile, WriteString(allowedWriter, mutations[idx].Name))
         /\ allowedWriter' = << >>
         /\ allowedCount' = allowedCount + 1
         /\ UNCHANGED << unallowedFile, unallowedCount, unallowedWriter >>

testMutations_Record_SkipOnError ==
    /\ pc = "classify"
    /\ IF err THEN UNCHANGED << results, writers >> ELSE RecordAs(containsDeniedMessage(resp))
    /\ classified' = ~err
    /\ resp' = IF err THEN resp ELSE AfterContainsDeniedMessage(resp)
    /\ pc' = "sleep"
    /\ UNCHANGED << flags, locals, exitCode, schemaReply, mutations, allMutationsFile,
                    requests, pending, idx, reply, err, sleeps, summary >>

testMutations_Record_StopOnEmptyBody ==
    /\ pc = "classify"
    /\ err \/ ReadAll(resp.Body) # << >>
    /\ RecordAs(err \/ containsDeniedMessage(resp))
    /\ classified' = ~err
    /\ resp' = IF err THEN resp ELSE AfterContainsDeniedMessage(resp)
    /\ pc' = "sleep"
    /\ UNCHANGED << flags, locals, exitCode, schemaReply, mutations, allMutationsFile,
                    requests, pending, idx, reply, err, sleeps, summary >>

testMutations_Record_ExitOnError ==
    /\ pc = "classify"
    /\ IF err
       THEN pc' = "exit" /\ exitCode' = 1 /\ UNCHANGED << results, writers >>
       ELSE pc' = "sleep" /\ RecordAs(containsDeniedMessage(resp)) /\ UNCHANGED exitCode
    /\ classified' = ~err
    /\ resp' = IF err THEN resp ELSE AfterContainsDeniedMessage(resp)
    /\ UNCHANGED << flags, locals, schemaReply, mutations, allMutationsFile, requests,
                    pending, idx, reply, err, sleeps, summary >>

testMutations_Record_ContinueOnDenied ==
    /\ pc = "classify"
    /\ RecordAs(err \/ containsDeniedMessage(resp))
    /\ IF err \/ containsDeniedMessage(resp)
       THEN /\ pc' = "loop"
            /\ idx' = idx + 1
            /\ resp' = NilResp
            /\ classified' = FALSE
       ELSE /\ pc' = "sleep"
            /\ idx' = idx
            /\ resp' = AfterContainsDeniedMessage(resp)
            /\ classified' = TRUE
    /\ UNCHANGED << flags, locals, exitCode, schemaReply, mutations, allMutationsFile,
                    requests, pending, reply, err, sleeps, summary >>

\* if err != nil || containsDeniedMessage(resp) { unallowed } else { allowed };
\* each branch writes the name, flushes, and counts.
testMutations_Record ==
    /\ pc = "classify"
    /\ RecordAs(err \/ containsDeniedMessage(resp))
    /\ classified' = ~err
    /\ resp' = IF err THEN resp ELSE AfterContainsDeniedMessage(resp)
    /\ pc' = "sleep"
    /\ UNCHANGED << flags, locals, exitCode, schemaReply, mutations, allMutationsFile,
                    requests, pending, idx, reply, err, sleeps, summary >>

\* time.Sleep(delay seconds) ends the iteration; its locals go out of scope.
testMutations_Sleep ==
    /\ pc = "sleep"
    /\ sleeps' = Append(sleeps, delay)
    /\ idx' = idx + 1
    /\ reply' = NoReply
    /\ resp' = NilResp
    /\ err' = FALSE
    /\ classified' = FALSE
    /\ pc' = "loop"
    /\ UNCHANGED << flags, locals, exitCode, schemaReply, mutations, allMutationsFile,
                    requests, pending, results, writers, summary >>

testMutations_Summary_BeforeLast ==
    /\ pc = "loop"
    /\ idx >= Len(mutations)
    /\ summary' = Append(summary, [Allowed |-> allowedCount,
                                   Unauthorized |-> unallowedCount,
                                   Total |-> allowedCount + unallowedCount])
    /\ pc' = "done"
    /\ UNCHANGED << flags, locals, exitCode, schemaReply, mutations, allMutationsFile,
                    requests, pending, idx, iteration, results, writers, sleeps >>

testMutations_Summary_Blocked ==
    /\ pc = "loop"
    /\ idx > Len(mutations)
    /\ pc' = "loop"
    /\ UNCHANGED << flags, locals, exitCode, schemaReply, mutations, allMutationsFile,
                    requests, pending, idx, iteration, results, writers, sleeps, summary >>

\* After the loop: the summary is printed and testMutations (and main) return.
testMutations_Summary ==
    /\ pc = "loop"
    /\ idx > Len(mutations)
    /\ summary' = Append(summary, [Allowed |-> allowedCount,
                                   Unauthorized |-> unallowedCount,
                                   Total |-> allowedCount + unallowedCount])
    /\ pc' = "done"
    /\ UNCHANGED << flags, locals, exitCode, schemaReply, mutations, allMutationsFile,
                    requests, pending, idx, iteration, results, writers, sleeps >>

Next ==
    \/ main_parseRequestFile
    \/ main_ParseUnauth
    \/ main_Prompt
    \/ getMutations_Send
    \/ getMutations_Return
    \/ main_StripHeaders
    \/ testMutations_Enter
    \/ testMutations_Send
    \/ sendRequest_Return
    \/ testMutations_Record
    \/ testMutations_Sleep
    \/ testMutations_Summary

Spec == Init /\ [][Next]_vars

\* One command line: a request captured with lower-case header names, the
\* default -t and -ssl, and -unauth=authorization.
InitLowerCaseCapture ==
    /\ Init
    /\ requestFile = File_LowerCase
    /\ unauthHeaders = Flag_authorization
    /\ delay = 1
    /\ useSSL
    /\ ~proxy.Enabled

SpecLowerCaseCapture == InitLowerCaseCapture /\ [][Next]_vars

(***************************************************************************)
(* Runs that may be ended from outside.  The process has no signal handler *)
(* and no cancellation: a kill ends it wherever it is, and what was        *)
(* flushed to the files stays.  Once the schema is fetched the program     *)
(* runs on as long as it can take a step, and every request the loop hands *)
(* to client.Do returns with a response or an error.                       *)
(***************************************************************************)
\* The process is gone: no request is pending and the locals of the
\* iteration are lost; the files and what was printed stay.
Kill ==
    /\ pc \notin {"exit", "done", "killed"}
    /\ pc' = "killed"
    /\ pending' = 0
    /\ idx' = 0
    /\ reply' = NoReply
    /\ resp' = NilResp
    /\ err' = FALSE
    /\ classified' = FALSE
    /\ UNCHANGED << flags, locals, exitCode, schemaReply, mutations, allMutationsFile,
                    requests, results, writers, sleeps, summary >>

\* Fairness for the steps main and testMutations take by themselves after
\* getMutations, and for the return of sendRequest.
SpecKillable ==
    /\ InitLowerCaseCapture
    /\ [][Next \/ Kill]_vars
    /\ WF_vars(main_StripHeaders \/ testMutations_Enter \/ testMutations_Send
                  \/ testMutations_Record \/ testMutations_Sleep \/ testMutations_Summary)
    /\ WF_vars(sendRequest_Return)

(***************************************************************************)
(* The variant of lines 343-615 of src/main.go (with -proxy and -ssl,      *)
(* before -unauth was added), marked _v2.  Its getMutations, sendRequest,  *)
(* containsDeniedMessage and buildMutationPayload have the text of the     *)
(* final variant; its parseRequestFile (lines 556-615) and its             *)
(* testMutations (lines 455-481) differ, and main (lines 381-419) has no   *)
(* -unauth steps.  The loop of the first variant's testMutations (lines    *)
(* 134-160) has the text of lines 455-481 but for the proxy arguments.     *)
(***************************************************************************)
\* One turn of the scanner loop: the endpoint is resolved when the POST line
\* is scanned, from the headers scanned before it; a header line is split at
\* the first colon-space, name and value stored as written.
ScanLine_v2(line, st, ssl) ==
    IF st.err THEN st
    ELSE IF line = << >> THEN [st EXCEPT !.isBody = TRUE]
    ELSE IF st.isBody THEN [st EXCEPT !.body = @ \o line]
    ELSE IF HasPrefix(line, Str_POST)
    THEN LET parts == Fields(line)
         IN  IF Len(parts) > 1
             THEN IF ~HasPrefix(parts[2], Str_http) /\ ~HasPrefix(parts[2], Str_https)
                  THEN IF Str_Host \in DOMAIN st.headers
                       THEN [st EXCEPT !.endpoint =
                                (IF ssl THEN Scheme_https ELSE Scheme_http)
                                \o Str_SchemeSep \o st.headers[Str_Host] \o parts[2]]
                       ELSE [st EXCEPT !.err = TRUE]
                  ELSE [st EXCEPT !.endpoint = parts[2]]
             ELSE st
    ELSE IF Contains(line, << ":", " " >>)
    THEN LET at == {i \in 1..(Len(line) - 1) : SubSeq(line, i, i + 1) = << ":", " " >>}
             i == CHOOSE k \in at : \A j \in at : k <= j
         IN  [st EXCEPT !.headers =
                 MapSet(@, SubSeq(line, 1, i - 1), SubSeq(line, i + 2, Len(line)))]
    ELSE st

\* The scanner loop from the empty locals, then the check of the endpoint.
parseRequestFile_v2(file, ssl) ==
    IF ~file.readable THEN ParseError
    ELSE LET Scan[i \in 0..Len(file.lines)] ==
                 IF i = 0
                 THEN [headers |-> EmptyMap, endpoint |-> << >>, body |-> << >>,
                       isBody |-> FALSE, err |-> FALSE]
                 ELSE ScanLine_v2(file.lines[i], Scan[i - 1], ssl)
             st == Scan[Len(file.lines)]
         IN  IF st.err \/ st.endpoint = << >> THEN ParseError
             ELSE ParseOk(st.endpoint, st.headers, st.body)

\* main, lines 381-415: the request file is parsed; os.Exit(1) on an error.
main_v2 ==
    /\ pc = "main"
    /\ LET r == parseRequestFile_v2(requestFile, useSSL)
       IN  IF r.err
           THEN /\ pc' = "exit"
                /\ exitCode' = 1
                /\ UNCHANGED << endpoint, headers, baseRequestBody >>
           ELSE /\ pc' = "getMutations"
                /\ endpoint' = r.endpoint
                /\ headers' = r.headers
                /\ baseRequestBody' = r.body
                /\ UNCHANGED exitCode
    /\ UNCHANGED << flags, unauthList, prompted, response, schemaReply, mutations,
                    allMutationsFile, requests, pending, idx, iteration, results, writers,
                    sleeps, summary >>

\* sendRequest returns to getMutations (lines 428-449), which returns to
\* main, and main calls testMutations.
getMutations_Return_v2 ==
    /\ pc = "awaitSchema"
    /\ \E r \in SchemaReplies :
          /\ schemaReply' = r
          /\ IF r.kind = "error"
             THEN /\ pc' = "exit"
                  /\ exitCode' = 1
                  /\ UNCHANGED << mutations, allMutationsFile >>
             ELSE /\ mutations' = Unmarshal(r.json)
                  /\ allMutationsFile' = Flush(<< >>, Names(Unmarshal(r.json)))
                  /\ pc' = "testMutations"
                  /\ UNCHANGED exitCode
    /\ pending' = pending - 1
    /\ UNCHANGED << flags, locals, requests, idx, iteration, results, writers, sleeps,
                    summary >>

\* testMutations, lines 469-477: a denied or failed mutation is written to
\* unallowedMutations.txt and the loop continues with the next mutation at
\* once; an allowed one is written to allowedMutations.txt and the sleep
\* follows.  This variant counts nothing.
testMutations_Record_v2 ==
    /\ pc = "classify"
    /\ IF err \/ containsDeniedMessage(resp)
       THEN /\ unallowedFile' = Flush(unallowedFile,
                                      WriteString(unallowedWriter, mutations[idx].Name))
            /\ unallowedWriter' = << >>
            /\ idx' = idx + 1
            /\ reply' = NoReply
            /\ resp' = NilResp
            /\ err' = FALSE
            /\ classified' = FALSE
            /\ pc' = "loop"
            /\ UNCHANGED << allowedFile, allowedWriter >>
       ELSE /\ allowedFile' = Flush(allowedFile,
                                    WriteString(allowedWriter, mutations[idx].Name))
            /\ allowedWriter' = << >>
            /\ classified' = TRUE
            /\ resp' = AfterContainsDeniedMessage(resp)
            /\ pc' = "sleep"
            /\ UNCHANGED << idx, reply, err, unallowedFile, unallowedWriter >>
    /\ UNCHANGED << flags, locals, exitCode, schemaReply, mutations, allMutationsFile,
                    requests, pending, allowedCount, unallowedCount, sleeps, summary >>

\* After the loop (line 480): a completion message and no summary.
testMutations_Return_v2 ==
    /\ pc = "loop"
    /\ idx > Len(mutations)
    /\ pc' = "done"
    /\ UNCHANGED << flags, locals, exitCode, schemaReply, mutations, allMutationsFile,
                    requests, pending, idx, iteration, results, writers, sleeps, summary >>

Next_v2 ==
    \/ main_v2
    \/ getMutations_Send
    \/ getMutations_Return_v2
    \/ testMutations_Enter
    \/ testMutations_Send
    \/ sendRequest_Return
    \/ testMutations_Record_v2
    \/ testMutations_Sleep
    \/ testMutations_Return_v2

\* This variant has no -unauth flag.
Init_v2 == Init /\ unauthHeaders = << >>

Spec_v2 == Init_v2 /\ [][Next_v2]_vars

(***************************************************************************)
(* Vocabulary of the properties.                                           *)
(***************************************************************************)
\* The run is in the Record step of a mutation whose request got a response.
AtRecordOfResponse == pc = "classify" /\ ~err

\* The Record step appended this mutation's name to unallowedMutations.txt
\* (flushed), counted it as unallowed, and left the allowed sink alone.
RecordedDenied ==
    /\ unallowedFile' = Append(unallowedFile, mutations[idx].Name)
    /\ unallowedCount' = unallowedCount + 1
    /\ allowedFile' = allowedFile
    /\ allowedCount' = allowedCount

\* The Record step appended this mutation's name to allowedMutations.txt
\* (flushed), counted it as allowed, and left the unallowed sink alone.
RecordedAllowed ==
    /\ allowedFile' = Append(allowedFile, mutations[idx].Name)
    /\ allowedCount' = allowedCount + 1
    /\ unallowedFile' = unallowedFile
    /\ unallowedCount' = unallowedCount

\* The denial keywords and the denial codes the specification lists.
DenialKeywords == {Str_unauthorized, Str_forbidden, Str_access_denied, Str_restricted}

DenialCodes == {ToLower(Str_UNAUTHENTICATED), ToLower(Str_FORBIDDEN), ToLower(Str_ACCESS_DENIED)}

\* Some entry of the reply's errors list has a denial code, ignoring case.
HasDenialCode(r) ==
    /\ r.kind = "envelope"
    /\ \E i \in 1..Len(r.errors) : ToLower(r.errors[i].code) \in DenialCodes

\* Some error message of the reply contains a denial keyword, ignoring case.
HasDenialMessage(r) ==
    /\ r.kind = "envelope"
    /\ \E i \in 1..Len(r.errors) :
          \E k \in DenialKeywords : Contains(ToLower(r.errors[i].message), k)

\* The reply's raw body contains a denial keyword anywhere, ignoring case.
BodyHasDenialKeyword(r) ==
    \E k \in DenialKeywords : Contains(ToLower(RenderBody(r)), k)

\* The reply has a non-empty errors list and no data.
ErrorsWithoutData(r) ==
    /\ r.kind = "envelope"
    /\ r.errors # << >>
    /\ r.data \in {"null", "absent"}

\* The reply carries no denial signal: its status is neither 401 nor 403, no
\* error entry has a denial code, and no denial keyword occurs in a message
\* or anywhere in the body.
NoDenialSignal(r) ==
    /\ r.status \notin {401, 403}
    /\ ~HasDenialCode(r)
    /\ ~HasDenialMessage(r)
    /\ ~BodyHasDenialKeyword(r)

\* The three examples of allowed responses: a 400 validation error, a 500
\* without a keyword (as JSON and as plain text), and a 200 result.
AllowedExamples ==
    { EnvelopeReply(400, << ErrUnknownArgument >>, "absent"),
      EnvelopeReply(500, << ErrorEntry(Msg_InternalError, Code_None) >>, "null"),
      RawReply(500, Raw_Ok),
      EnvelopeReply(200, << >>, "object") }

\* The body has the shape the introspection query asks for: an object with
\* data.__schema.mutationType.fields an array of objects, each with a string
\* name and an array args.
HasSchemaShape(j) ==
    LET fs == Field(Field(Field(Field(j, "data"), "__schema"), "mutationType"), "fields")
    IN  /\ j.t = "obj"
        /\ fs.t = "arr"
        /\ \A i \in 1..Len(fs.e) :
              /\ fs.e[i].t = "obj"
              /\ Field(fs.e[i], "name").t = "str"
              /\ Field(fs.e[i], "args").t = "arr"

\* The number of occurrences of each element of a sequence.
SeqToBag(s) ==
    [x \in {s[i] : i \in 1..Len(s)} |-> Cardinality({i \in 1..Len(s) : s[i] = x})]

MutationRequests == SelectSeq(requests, LAMBDA q : q.kind = "mutation")

(***************************************************************************)
(* C1.  At the end of every run of testMutations, whatever the replies,    *)
(* allowedCount + unallowedCount is the number of catalog entries, and the *)
(* names in the two sinks together are exactly the catalog's names, each   *)
(* tested mutation's name in exactly one sink.                             *)
(***************************************************************************)
C1_CountsAndSinksPartitionCatalog ==
    pc = "done" =>
        /\ allowedCount + unallowedCount = Len(mutations)
        /\ Len(allowedFile) = allowedCount
        /\ Len(unallowedFile) = unallowedCount
        /\ SeqToBag(allowedFile) (+) SeqToBag(unallowedFile) = SeqToBag(Names(mutations))
        /\ \A i \in 1..Len(mutations) :
              Cardinality({j \in 1..Len(mutations) : mutations[j].Name = mutations[i].Name}) = 1
                  => LET n == mutations[i].Name
                         inAllowed == \E j \in 1..Len(allowedFile) : allowedFile[j] = n
                         inUnallowed == \E j \in 1..Len(unallowedFile) : unallowedFile[j] = n
                     IN  inAllowed # inUnallowed

\* A finished run over createUser, deleteUser: one allowed, one denied.
C1_Witness ==
    /\ pc = "done"
    /\ Names(mutations) = << "createUser", "deleteUser" >>
    /\ allowedFile = << "createUser" >>
    /\ unallowedFile = << "deleteUser" >>
    /\ allowedCount = 1
    /\ unallowedCount = 1

(***************************************************************************)
(* C2.  Every response whose status is 401 or 403 is classified Denied,    *)
(* whatever its body: its mutation is recorded in the unallowed sink.      *)
(***************************************************************************)
C2_Status401Or403Denied ==
    [][(AtRecordOfResponse /\ resp.StatusCode \in {401, 403}) => RecordedDenied]_vars

\* A 401 whose body looks like a successful GraphQL result was recorded as
\* unallowed.
C2_Witness ==
    /\ pc = "sleep"
    /\ classified
    /\ reply = EnvelopeReply(401, << >>, "object")
    /\ resp.StatusCode = 401
    /\ resp.Body.data = Body_SpecAllowedExample
    /\ unallowedFile = << mutations[idx].Name >>
    /\ allowedFile = << >>

(***************************************************************************)
(* C3.  A 200 response whose errors list has an entry with extensions.code *)
(* UNAUTHENTICATED, FORBIDDEN or ACCESS_DENIED (ignoring case) is          *)
(* classified Denied and its mutation recorded in the unallowed sink.      *)
(***************************************************************************)
C3_DenialCodeDenied ==
    [][(AtRecordOfResponse /\ reply.status = 200 /\ HasDenialCode(reply))
          => RecordedDenied]_vars

(***************************************************************************)
(* C4.  A response, of any status, with one of the keywords unauthorized,  *)
(* forbidden, access denied, restricted (ignoring case) in an error        *)
(* message or anywhere in its raw body is classified Denied.               *)
(***************************************************************************)
C4_EveryDenialKeywordDenied ==
    [][(AtRecordOfResponse /\ (HasDenialMessage(reply) \/ BodyHasDenialKeyword(reply)))
          => RecordedDenied]_vars

(***************************************************************************)
(* C5.  A response with a non-empty errors list and a null or absent data  *)
(* field is classified Denied, whatever its status and error messages.     *)
(***************************************************************************)
C5_ErrorsWithoutDataDenied ==
    [][(AtRecordOfResponse /\ ErrorsWithoutData(reply)) => RecordedDenied]_vars

C7_ClassifierTotal ==
    /\ [](pc = "classify" => ENABLED testMutations_Record)
    /\ [][AtRecordOfResponse
            => /\ RecordedDenied \/ RecordedAllowed
               /\ classified'
               /\ pc' = "sleep"]_vars

\* A response with a truncated JSON body got a verdict.
C7_Witness ==
    /\ pc = "sleep"
    /\ classified
    /\ reply = RawReply(200, Raw_Truncated)
    /\ resp.Body.data = Raw_Truncated
    /\ allowedFile = << mutations[idx].Name >>
    /\ allowedCount + unallowedCount = idx

(***************************************************************************)
(* C8.  A transport error on one mutation's request records that mutation  *)
(* as Denied (name to the unallowed sink, unallowed counter incremented,   *)
(* classifier not called) and the loop goes on: the next mutation, if any, *)
(* is sent, and a finished run has sent one request per mutation.          *)
(***************************************************************************)
C8_TransportErrorDeniedAndLoopContinues ==
    /\ [][(pc = "classify" /\ err) => (RecordedDenied /\ ~classified' /\ pc' = "sleep")]_vars
    /\ [][(pc = "sleep" /\ err)
            => (pc' = "loop" /\ idx' = idx + 1 /\ UNCHANGED results)]_vars
    /\ []((pc = "loop" /\ idx <= Len(mutations)) => ENABLED testMutations_Send)
    /\ [](pc = "done" => Len(MutationRequests) = Len(mutations))

\* The first of two mutations failed with a transport error and was recorded
\* as unallowed without a call of the classifier.
C8_Witness ==
    /\ pc = "sleep"
    /\ err
    /\ reply = TransportError
    /\ resp = NilResp
    /\ ~classified
    /\ idx = 1
    /\ Len(mutations) = 2
    /\ unallowedFile = << mutations[1].Name >>
    /\ unallowedCount = 1
    /\ allowedFile = << >>

(***************************************************************************)
(* C9.  If the schema-fetch request fails with a transport error the run   *)
(* ends in a terminal error state: no mutation request is sent, no name is *)
(* written to a sink, and no summary is printed.                           *)
(***************************************************************************)
C9_SchemaTransportErrorFatal ==
    schemaReply.kind = "error" =>
        /\ pc = "exit"
        /\ ~ENABLED Next
        /\ Len(requests) = 1
        /\ MutationRequests = << >>
        /\ allMutationsFile = << >>
        /\ allowedFile = << >>
        /\ unallowedFile = << >>
        /\ allowedCount = 0 /\ unallowedCount = 0
        /\ summary = << >>

\* The schema fetch failed and the run has exited.
C9_Witness ==
    /\ pc = "exit"
    /\ schemaReply = TransportError
    /\ exitCode = 1
    /\ Len(requests) = 1
    /\ requests[1].kind = "introspection"
    /\ requests[1].payload = IntrospectionQuery

(***************************************************************************)
(* C10.  If the introspection body is not valid JSON or has not the        *)
(* expected schema shape, getMutations returns the empty catalog without   *)
(* an error; the run sends no mutation request and ends with the summary   *)
(* allowed = 0, denied = 0, total = 0.                                     *)
(***************************************************************************)
C10_MalformedSchemaEmptyRun ==
    (schemaReply.kind = "response" /\ ~HasSchemaShape(schemaReply.json)) =>
        /\ pc # "exit"
        /\ mutations = << >>
        /\ MutationRequests = << >>
        /\ pc = "done" => summary = << [Allowed |-> 0, Unauthorized |-> 0, Total |-> 0] >>

(***************************************************************************)
(* Vocabulary of the properties of main.                                   *)
(***************************************************************************)
\* The credential set as captured: what parseRequestFile returned.
CapturedHeaders == parseRequestFile(requestFile, useSSL).headers

SchemaRequests == SelectSeq(requests, LAMBDA q : q.kind = "introspection")

\* This step hands a request of this kind to client.Do.
Sending(kind) == Len(requests') = Len(requests) + 1 /\ requests'[Len(requests')].kind = kind

\* The request this step sends.
SentRequest == requests'[Len(requests')]

\* The phases of a run, in their order; the four steps of the loop share a
\* rank, the terminal error state has the last one.
PhaseRank(p) ==
    CASE p = "main" -> 0
      [] p = "unauth" -> 1
      [] p = "prompt" -> 2
      [] p = "getMutations" -> 3
      [] p = "awaitSchema" -> 4
      [] p = "stripHeaders" -> 5
      [] p = "testMutations" -> 6
      [] p \in {"loop", "inFlight", "classify", "sleep"} -> 7
      [] p = "done" -> 8
      [] p = "exit" -> 9

\* The lines of the request file between the request line and the first
\* blank line.
HeaderLines(file) ==
    LET blanks == {i \in 1..Len(file.lines) : file.lines[i] = << >>}
        last == IF blanks = {} THEN Len(file.lines)
                ELSE (CHOOSE i \in blanks : \A j \in blanks : i <= j) - 1
    IN  SubSeq(file.lines, 2, last)

\* The name of a header line K: V, exactly as written, and its value.
WrittenName(line) == SubSeq(line, 1, Index(line, ":") - 1)

WrittenValue(line) == TrimSpace(SubSeq(line, Index(line, ":") + 1, Len(line)))

\* The names the user gave to -unauth.
NamedForRemoval == {UnauthList(unauthHeaders)[i] : i \in 1..Len(UnauthList(unauthHeaders))}

\* The request carries the header of this name (header names are compared
\* without regard to case, as HTTP does).
Carries(request, name) == \E k \in DOMAIN request.headers : ToLower(k) = ToLower(name)

(***************************************************************************)
(* C11.  The schema-fetch request carries the full captured credential     *)
(* set; the header map changes only in the strip step, which removes the   *)
(* -unauth names, is taken at most once, after the schema fetch returned   *)
(* and before any mutation request is sent; from then on the map never     *)
(* changes, so every mutation request is sent with the stripped set.       *)
(***************************************************************************)
C11_StripOnceBetweenFetchAndTests ==
    /\ [][Sending("introspection") => SentRequest.headers = SetHeaders(CapturedHeaders)]_vars
    /\ [][(pc # "main" /\ headers' # headers)
            => /\ pc = "stripHeaders"
               /\ schemaReply.kind = "response"
               /\ pending = 0
               /\ MutationRequests = << >>
               /\ headers' = DeleteAll(headers, unauthList)]_vars
    /\ [][/\ PhaseRank(pc') >= PhaseRank(pc)
          /\ pc = "stripHeaders" => PhaseRank(pc') > PhaseRank(pc)]_vars
    /\ [][PhaseRank(pc) > PhaseRank("stripHeaders") => headers' = headers]_vars
    /\ [][Sending("mutation")
            => SentRequest.headers = SetHeaders(DeleteAll(CapturedHeaders, unauthList))]_vars

\* With -unauth=Authorization,Cookie the schema fetch went out with both
\* headers, and the second mutation request goes out without them.
C11_Witness ==
    /\ pc = "inFlight"
    /\ idx = 2
    /\ unauthHeaders = Flag_AuthorizationCookie
    /\ requestFile = File_Canonical
    /\ {Str_Authorization, Str_Cookie} \subseteq DOMAIN requests[1].headers
    /\ requests[3].kind = "mutation"
    /\ DOMAIN requests[3].headers = {Str_Host}
    /\ DOMAIN headers = {Str_Host}

(***************************************************************************)
(* C12.  No mutation request carries a header of the captured request      *)
(* whose name, as written in the request file, is in the -unauth list.     *)
(***************************************************************************)
C12_NamedHeadersNeverSentToTests ==
    \A i \in 1..Len(requests) :
        requests[i].kind = "mutation"
            => \A j \in 1..Len(HeaderLines(requestFile)) :
                  WrittenName(HeaderLines(requestFile)[j]) \in NamedForRemoval
                      => ~Carries(requests[i], WrittenName(HeaderLines(requestFile)[j]))

(***************************************************************************)
(* C13.  The header map parseRequestFile returns has, for every header     *)
(* line K: V before the first blank line, the key K exactly as written,    *)
(* mapped to V.                                                            *)
(***************************************************************************)
C13_HeaderNamesKeepTheirCase ==
    pc = "unauth" =>
        \A j \in 1..Len(HeaderLines(requestFile)) :
            LET line == HeaderLines(requestFile)[j]
            IN  /\ WrittenName(line) \in DOMAIN headers
                /\ headers[WrittenName(line)] = WrittenValue(line)

(***************************************************************************)
(* C14.  The loop of testMutations is sequential and paced: at most one    *)
(* request is in flight at any time; every record step, whatever its       *)
(* verdict, is followed by one pause of the configured delay, so the       *)
(* request of the k-th mutation is sent after exactly k - 1 pauses; and no *)
(* pause precedes the schema-fetch request.                                *)
(***************************************************************************)
C14_SequentialAndPaced ==
    /\ [](pending <= 1)
    /\ [](\A i \in 1..Len(sleeps) : sleeps[i] = delay)
    /\ [][pc = "classify" => (pc' = "sleep" /\ sleeps' = sleeps /\ requests' = requests)]_vars
    /\ [][pc = "sleep"
            => (sleeps' = Append(sleeps, delay) /\ pc' = "loop" /\ requests' = requests)]_vars
    /\ [][Sending("mutation")
            => /\ pending = 0
               /\ Len(sleeps) = Len(MutationRequests)
               /\ allowedCount + unallowedCount = Len(MutationRequests)]_vars
    /\ [][Sending("introspection") => sleeps = << >>]_vars

\* The first mutation was recorded as unallowed, one pause of the configured
\* delay followed, and the second mutation's request is in flight.
C14_Witness ==
    /\ pc = "inFlight"
    /\ idx = 2
    /\ pending = 1
    /\ delay = 1
    /\ sleeps = << 1 >>
    /\ unallowedCount = 1
    /\ Len(MutationRequests) = 2

\* The steps from one position of main and testMutations to the next.
PhaseOrder ==
    { << "main", "unauth" >>, << "main", "exit" >>,
      << "unauth", "prompt" >>, << "unauth", "getMutations" >>,
      << "prompt", "getMutations" >>, << "prompt", "exit" >>,
      << "getMutations", "awaitSchema" >>, << "getMutations", "exit" >>,
      << "awaitSchema", "stripHeaders" >>, << "awaitSchema", "exit" >>,
      << "stripHeaders", "testMutations" >>,
      << "testMutations", "loop" >>,
      << "loop", "inFlight" >>, << "inFlight", "classify" >>, << "classify", "sleep" >>,
      << "sleep", "loop" >>,
      << "loop", "done" >> }

(***************************************************************************)
(* C15.  Every run goes through its phases in the order Init, FetchSchema, *)
(* StripHeaders (which changes nothing when the -unauth list is empty),    *)
(* then per mutation, in catalog order, Synthesize and Execute, Classify   *)
(* and Record, Pace, then Summarize, then Done; no phase is entered out of *)
(* this order or entered again, and the summary is printed once, after the *)
(* last mutation was recorded, with the counters of the loop.              *)
(***************************************************************************)
C15_PhaseOrder ==
    /\ [][pc' # pc => << pc, pc' >> \in PhaseOrder]_vars
    /\ [][PhaseRank(pc') >= PhaseRank(pc)]_vars
    /\ [][(pc = "stripHeaders" /\ unauthList = << >>) => headers' = headers]_vars
    /\ [][pc = "testMutations" => idx' = 1]_vars
    /\ [][pc = "sleep" => idx' = idx + 1]_vars
    /\ [][(pc = "loop" \/ pc = "inFlight" \/ pc = "classify") => idx' = idx]_vars
    /\ [][Sending("mutation")
            => /\ idx <= Len(mutations)
               /\ SentRequest.payload.operationName = mutations[idx].Name]_vars
    /\ [][pc = "classify" => (allowedCount' + unallowedCount' = idx)]_vars
    /\ [][summary' # summary
            => /\ pc = "loop" /\ pc' = "done"
               /\ idx = Len(mutations) + 1
               /\ allowedCount + unallowedCount = Len(mutations)
               /\ summary = << >>
               /\ summary' = << [Allowed |-> allowedCount,
                                 Unauthorized |-> unallowedCount,
                                 Total |-> Len(mutations)] >>]_vars
    /\ [](pc = "done" <=> Len(summary) = 1)

\* A run with -unauth over two mutations has printed its summary.
C15_Witness ==
    /\ pc = "done"
    /\ unauthList # << >>
    /\ Len(mutations) = 2
    /\ Len(requests) = 3
    /\ summary = << [Allowed |-> 1, Unauthorized |-> 1, Total |-> 2] >>

(***************************************************************************)
(* Vocabulary of the properties of the synthesized document: the variable  *)
(* definitions of the operation header and the arguments of the field      *)
(* call, read back from the query text.                                    *)
(***************************************************************************)
Str_input ==
    << "i", "n", "p", "u", "t" >>

Str_id ==
    << "i", "d" >>

Str_ID ==
    << "I", "D" >>

Str_CreateUserInput ==
    << "C", "r", "e", "a", "t", "e", "U", "s", "e", "r", "I", "n", "p", "u", "t" >>

\* The bytes of a name of the schema or of the variables map.
Text(name) ==
    CASE name = "input" -> Str_input
      [] name = "id" -> Str_id
      [] name = "ID" -> Str_ID
      [] name = "CreateUserInput" -> Str_CreateUserInput
      [] OTHER -> Bytes(name)

\* The characters of a GraphQL name.
NameChars ==
    DOMAIN UpperToLower \cup DOMAIN LowerToUpper
    \cup {"0", "1", "2", "3", "4", "5", "6", "7", "8", "9", "_"}

\* The longest name that starts at position i of s.
NameAt(s, i) ==
    LET stops == {t \in i..Len(s) : s[t] \notin NameChars}
    IN  IF stops = {} THEN SubSeq(s, i, Len(s))
        ELSE SubSeq(s, i, (CHOOSE t \in stops : \A u \in stops : t <= u) - 1)

\* The names of the variables ($name) that occur in s.
VariablesIn(s) == {NameAt(s, i + 1) : i \in {j \in 1..Len(s) : s[j] = "$"}}

\* The text between the first ( and the first ) of s; empty without them.
Parenthesized(s) ==
    IF Index(s, "(") = 0 \/ Index(s, ")") < Index(s, "(") THEN << >>
    ELSE SubSeq(s, Index(s, "(") + 1, Index(s, ")") - 1)

\* The operation header: the text before the first { of the document.
OperationHeader(q) == IF Index(q, "{") = 0 THEN q ELSE SubSeq(q, 1, Index(q, "{") - 1)

\* The selection set: the text from the first { of the document on.
SelectionSet(q) == IF Index(q, "{") = 0 THEN << >> ELSE SubSeq(q, Index(q, "{"), Len(q))

DeclaredVariables(q) == VariablesIn(Parenthesized(OperationHeader(q)))

UsedVariables(q) == VariablesIn(SelectionSet(q))

\* The pairs left: right of a comma-separated list, both sides trimmed.
Pairs(s) ==
    IF TrimSpace(s) = << >> THEN {}
    ELSE { << TrimSpace(SplitN2(Split(s, ",")[i], ":")[1]),
              TrimSpace(SplitN2(Split(s, ",")[i], ":")[2]) >> : i \in 1..Len(Split(s, ",")) }

\* The variable definitions of the document, as pairs << $name, type >>.
Declarations(q) == Pairs(Parenthesized(OperationHeader(q)))

\* The arguments of the field call, as pairs << name, value >>.
FieldArguments(q) == Pairs(Parenthesized(SelectionSet(q)))

\* The leaf type name of an introspected argument, and whether its
\* outermost wrapper is NON_NULL.
LeafName(a) == IF a.Type.OfType.nil THEN a.Type.Name ELSE a.Type.OfType.Name

TypeText(a) == Text(LeafName(a)) \o (IF a.Type.Kind = "NON_NULL" THEN << "!" >> ELSE << >>)

ArgsOf(mutation) == {mutation.Args[i] : i \in 1..Len(mutation.Args)}

\* The input object types of the example schema and their fields.
InputObjectFields == [CreateUserInput |-> {"email"}]

\* What buildMutationPayload may be handed besides the mutation: every
\* result of parseRequestFile, and the empty credential set.
PayloadContexts ==
    { parseRequestFile(f, s) : f \in RequestFiles, s \in BOOLEAN }
    \cup { [err |-> FALSE, endpoint |-> << >>, headers |-> EmptyMap, body |-> Line_Body] }

(***************************************************************************)
(* C16.  The document of every mutation request declares exactly the       *)
(* variables its field call uses, and the variables map has an entry for   *)
(* exactly the declared variables.                                         *)
(***************************************************************************)
C16_DeclaredIsUsed ==
    [][Sending("mutation")
         => LET payload == SentRequest.payload
            IN  /\ DeclaredVariables(payload.query) = UsedVariables(payload.query)
                /\ DeclaredVariables(payload.query) = {Text(v) : v \in DOMAIN payload.variables}
                /\ DeclaredVariables(payload.query) # {}]_vars

\* The request for deleteUser is in flight; its document declares and uses
\* the variable input.
C16_Witness ==
    /\ pc = "inFlight"
    /\ mutations[idx].Name = "deleteUser"
    /\ DeclaredVariables(requests[Len(requests)].payload.query) = {Str_input}
    /\ UsedVariables(requests[Len(requests)].payload.query) = {Str_input}
    /\ DOMAIN requests[Len(requests)].payload.variables = {"input"}

(***************************************************************************)
(* C17.  For every argument a of the mutation's introspected argument list *)
(* the document declares $<a.name>: <leaf type of a>, with ! when a is     *)
(* NON_NULL, uses it as <a.name>: $<a.name>, and the variables map has the *)
(* entry <a.name>; k arguments give k declarations (deleteUser(id: ID!)    *)
(* gives $id: ID!, createUser(input: CreateUserInput!) gives               *)
(* $input: CreateUserInput!).                                              *)
(***************************************************************************)
C17_DeclarationsFollowArguments ==
    [][Sending("mutation")
         => LET payload == SentRequest.payload
                args == ArgsOf(mutations[idx])
            IN  /\ Declarations(payload.query)
                      = { << << "$" >> \o Text(a.Name), TypeText(a) >> : a \in args }
                /\ FieldArguments(payload.query)
                      = { << Text(a.Name), << "$" >> \o Text(a.Name) >> : a \in args }
                /\ DOMAIN payload.variables = { a.Name : a \in args }]_vars

(***************************************************************************)
(* C18.  For an argument whose leaf type is an input object the variables  *)
(* map holds, under the argument's name, an object whose keys are exactly  *)
(* the fields of that input type (for CreateUserInput: email).             *)
(***************************************************************************)
C18_InputObjectFieldsSynthesized ==
    [][Sending("mutation")
         => \A a \in ArgsOf(mutations[idx]) :
               LeafName(a) \in DOMAIN InputObjectFields
                   => /\ a.Name \in DOMAIN SentRequest.payload.variables
                      /\ DOMAIN SentRequest.payload.variables[a.Name]
                            = InputObjectFields[LeafName(a)]]_vars

(***************************************************************************)
(* C19.  The payload of a mutation request depends on the mutation alone:  *)
(* it is the payload buildMutationPayload gives for that mutation with any *)
(* other endpoint, credential set and captured body, and it equals the     *)
(* payload of every earlier request of the run for an equal mutation.      *)
(***************************************************************************)
C19_PayloadDependsOnMutationOnly ==
    [][Sending("mutation")
         => /\ \A c \in PayloadContexts :
                  SentRequest.payload
                      = buildMutationPayload(mutations[idx], c.endpoint, c.headers, c.body)
            /\ \A j \in 1..(idx - 1) :
                  mutations[j] = mutations[idx]
                      => MutationRequests[j].payload = SentRequest.payload]_vars

\* The catalog lists createUser twice; the second request, sent after the
\* credential set was stripped, has the payload of the first.
C19_Witness ==
    /\ pc = "inFlight"
    /\ idx = 2
    /\ mutations[1] = mutations[2]
    /\ unauthHeaders = Flag_AuthorizationCookie
    /\ DOMAIN headers = {Str_Host}
    /\ requests[2].payload = requests[3].payload
    /\ requests[3].payload.operationName = "createUser"

\* The number of mutations whose verdict was written.
Recorded == IF pc = "sleep" THEN idx ELSE idx - 1

\* The names among the first k whose mark is b, in catalog order.
Marked(names, mark, k, b) ==
    LET Take[i \in 0..k] ==
            IF i = 0 THEN << >>
            ELSE IF mark[i] = b THEN Append(Take[i - 1], names[i]) ELSE Take[i - 1]
    IN  Take[k]

(***************************************************************************)
(* C20.  At every point of the loop, with k mutations recorded, the two    *)
(* result files hold exactly the names of the first k catalog entries,     *)
(* each name in one file, in catalog order within each file, and nothing   *)
(* is left in a writer's buffer; each record step appends the name to the  *)
(* file of its verdict.                                                    *)
(***************************************************************************)
C20_SinksPartitionRecordedPrefix ==
    /\ []((pc = "loop" \/ pc = "inFlight" \/ pc = "classify" \/ pc = "sleep" \/ pc = "done")
            => /\ \E denied \in [1..Recorded -> BOOLEAN] :
                     /\ allowedFile = Marked(Names(mutations), denied, Recorded, FALSE)
                     /\ unallowedFile = Marked(Names(mutations), denied, Recorded, TRUE)
               /\ allowedWriter = << >>
               /\ unallowedWriter = << >>)
    /\ [][pc = "classify"
            => IF err \/ containsDeniedMessage(resp) THEN RecordedDenied ELSE RecordedAllowed]_vars
    /\ [][allowedFile' # allowedFile \/ unallowedFile' # unallowedFile
            => pc = "testMutations" \/ pc = "classify"]_vars

\* The first of two mutations was recorded as allowed and flushed; the
\* second one's request is in flight.
C20_Witness ==
    /\ pc = "inFlight"
    /\ idx = 2
    /\ Len(mutations) = 2
    /\ allowedFile = << mutations[1].Name >>
    /\ unallowedFile = << >>
    /\ allowedWriter = << >>
    /\ unallowedWriter = << >>

\* Nothing was sent to the target and nothing was recorded.
NothingSentOrRecorded ==
    /\ requests = << >>
    /\ pending = 0
    /\ allMutationsFile = << >>
    /\ allowedFile = << >>
    /\ unallowedFile = << >>
    /\ summary = << >>

(***************************************************************************)
(* C21.  A configuration error ends the run with os.Exit(1) before any     *)
(* request is sent and before anything is recorded: a request file without *)
(* a POST request line, or with a relative path and no Host header, ends   *)
(* it when the file is parsed, and a proxy URL that url.Parse refuses ends *)
(* it when the first request is about to be built; an ended run takes no   *)
(* further step.                                                           *)
(***************************************************************************)
C21_ConfigErrorFatalBeforeAnyRequest ==
    /\ [][(pc = "main" /\ parseRequestFile(requestFile, useSSL).err)
             => (pc' = "exit" /\ exitCode' = 1 /\ NothingSentOrRecorded')]_vars
    /\ [][(pc = "getMutations" /\ InvalidProxy)
             => (pc' = "exit" /\ exitCode' = 1 /\ NothingSentOrRecorded')]_vars
    /\ [](InvalidProxy => NothingSentOrRecorded)
    /\ [](requestFile \in {File_NoPost, File_NoHost} => NothingSentOrRecorded)
    /\ [][pc # "exit"]_vars

\* The run with -proxy=http://custom:port has ended in getMutations, after
\* the file was parsed, with nothing sent; and a file without a POST line
\* is one of the inputs that end in the parser.
C21_Witness ==
    /\ pc = "exit"
    /\ exitCode = 1
    /\ proxy = [Enabled |-> TRUE, URL |-> Str_CustomProxy]
    /\ ~url_Parse(proxy.URL)
    /\ endpoint # << >>
    /\ requests = << >>
    /\ parseRequestFile(File_NoPost, useSSL).err
    /\ parseRequestFile(File_NoHost, useSSL).err

(***************************************************************************)
(* C22.  The response sendRequest returns holds the complete body the      *)
(* server sent, and containsDeniedMessage leaves it so: after the call a   *)
(* reader of resp.Body still gets every byte, a second classification of   *)
(* the same response gives the verdict of the first, and leaves the        *)
(* response as it found it (for 401 and 403 as for every other status).    *)
(***************************************************************************)
C22_ResponseReadableAgain ==
    [][(pc = "classify" /\ ~err)
         => /\ ReadAll(resp.Body) = RenderBody(reply)
            /\ ReadAll(resp'.Body) = RenderBody(reply)
            /\ containsDeniedMessage(resp') = containsDeniedMessage(resp)
            /\ AfterContainsDeniedMessage(resp') = resp']_vars

\* A 200 response whose body holds the word unauthorized was classified as
\* denied, and its body is still there to read.
C22_Witness ==
    /\ pc = "sleep"
    /\ classified
    /\ resp.StatusCode = 200
    /\ ReadAll(resp.Body) = Raw_PlainUnauthorized
    /\ containsDeniedMessage(resp)
    /\ unallowedFile = << mutations[1].Name >>

\* The answers that confirm: y, in either case.
Confirms(answer) == answer \in { << "y" >>, << "Y" >> }

(***************************************************************************)
(* C23.  The user is asked exactly when a name of the -unauth list is no   *)
(* key of the parsed header map; nothing is sent before the answer; the    *)
(* run goes on to the schema fetch only on y or Y, and on any other answer *)
(* it has ended with no request sent and the header map as parsed.         *)
(***************************************************************************)
C23_ConfirmBeforeAnyRequest ==
    /\ [][(pc = "unauth")
             => ((pc' = "prompt") <=> (Missing(unauthList', headers) # << >>))]_vars
    /\ [](pc = "prompt" => (NothingSentOrRecorded /\ ~prompted))
    /\ [][(pc = "prompt")
             => /\ prompted'
                /\ (pc' = "getMutations") <=> Confirms(response')
                /\ (pc' = "exit") <=> ~Confirms(response')
                /\ headers' = headers
                /\ NothingSentOrRecorded']_vars
    /\ []((prompted /\ ~Confirms(response))
             => /\ pc = "exit"
                /\ NothingSentOrRecorded
                /\ headers = CapturedHeaders)
    /\ [][Sending("introspection")
             => (Missing(unauthList, headers) # << >> => (prompted /\ Confirms(response)))]_vars

\* The file has no header named authorization, the user answered n, and the
\* run ended with nothing sent and every parsed header in the map.
C23_Witness ==
    /\ pc = "exit"
    /\ exitCode = 0
    /\ prompted
    /\ response = << "n" >>
    /\ Missing(unauthList, headers) = << Str_authorization >>
    /\ requests = << >>
    /\ Str_Authorization \in DOMAIN headers

\* The target of the request line, as written.
RequestTarget(file) == Fields(file.lines[1])[2]

\* A request in raw captured format: the first line is POST, a relative
\* path and the protocol version, and a header line is named Host.
RawCapture(file) ==
    /\ file.readable
    /\ file.lines # << >>
    /\ Len(Fields(file.lines[1])) = 3
    /\ Fields(file.lines[1])[1] = Str_POST
    /\ HasPrefix(RequestTarget(file), << "/" >>)
    /\ \E i \in 1..Len(HeaderLines(file)) : WrittenName(HeaderLines(file)[i]) = Str_Host

\* A request whose first line is POST and an absolute http or https URL.
AbsoluteCapture(file) ==
    /\ file.readable
    /\ file.lines # << >>
    /\ Len(Fields(file.lines[1])) = 3
    /\ Fields(file.lines[1])[1] = Str_POST
    /\ HasPrefix(RequestTarget(file), Str_http) \/ HasPrefix(RequestTarget(file), Str_https)

\* scheme://host/path for the Host header and the path of a raw capture.
ResolvedEndpoint(file, ssl) ==
    LET hs == HeaderLines(file)
        i == CHOOSE k \in 1..Len(hs) : WrittenName(hs[k]) = Str_Host
    IN  (IF ssl THEN Str_https ELSE Str_http) \o WrittenValue(hs[i]) \o RequestTarget(file)

(***************************************************************************)
(* C24.  Both variants of parseRequestFile that take useSSL (lines 556-615 *)
(* and lines 960-1023) return, without an error, for a raw capture the     *)
(* endpoint https://<Host><path> when useSSL is true and                   *)
(* http://<Host><path> when it is false, and for a request line with an    *)
(* absolute URL that URL unchanged.  The endpoint main holds after the     *)
(* call is the one of lines 556-615.                                       *)
(***************************************************************************)
C24_EndpointSchemeFollowsUseSSL ==
    pc # "main"
        => /\ RawCapture(requestFile)
                => /\ parseRequestFile(requestFile, useSSL)
                         = ParseOk(ResolvedEndpoint(requestFile, useSSL),
                                   parseRequestFile(requestFile, useSSL).headers,
                                   parseRequestFile(requestFile, useSSL).body)
                   /\ endpoint = ResolvedEndpoint(requestFile, useSSL)
           /\ AbsoluteCapture(requestFile)
                => /\ ~parseRequestFile(requestFile, useSSL).err
                   /\ parseRequestFile(requestFile, useSSL).endpoint = RequestTarget(requestFile)
                   /\ endpoint = RequestTarget(requestFile)

(***************************************************************************)
(* C27.  In the testMutations of lines 455-481 (and of lines 134-160, the  *)
(* same loop) every mutation request but the first is sent after one more  *)
(* pause of the -t delay than the one before it: when a mutation request   *)
(* is sent, as many pauses of that length have been made as mutation       *)
(* requests were sent before, whatever their outcome.                      *)
(***************************************************************************)
C27_EarlierLoopsPauseBetweenRequests ==
    [][Sending("mutation")
         => /\ Len(sleeps') = Len(MutationRequests)
            /\ \A i \in 1..Len(sleeps') : sleeps'[i] = delay]_vars

C26_HeaderMapHasOneWriter ==
    /\ [][headers' # headers => (pc = "main" \/ pc = "stripHeaders")]_vars
    /\ [][Sending("mutation")
             => /\ headers' = headers
                /\ SentRequest.headers = SetHeaders(headers)
                /\ \A j \in 1..Len(MutationRequests) :
                      MutationRequests[j].headers = SentRequest.headers
                /\ unauthList = << >> => SentRequest.headers = requests[1].headers]_vars

\* A run without -unauth over two mutations has ended: both mutation
\* requests went out with the headers of the introspection request.
C26_Witness ==
    /\ pc = "done"
    /\ unauthList = << >>
    /\ Len(MutationRequests) = 2
    /\ MutationRequests[1].headers = requests[1].headers
    /\ MutationRequests[2].headers = requests[1].headers
    /\ Str_Authorization \in DOMAIN requests[1].headers
    /\ DOMAIN headers = DOMAIN requests[1].headers

(***************************************************************************)
(* C28.  A run whose schema fetch succeeded, whose requests all return and *)
(* which is not killed reaches the end of testMutations, whatever the      *)
(* catalog; the summary is printed once, by the step that ends the run,    *)
(* and a run that was killed has printed none.                             *)
(***************************************************************************)
C28_RunTerminatesWithOneSummary ==
    /\ (pc = "stripHeaders") ~> (pc = "done" \/ pc = "killed")
    /\ [](pc = "done" => Len(summary) = 1)
    /\ [](pc = "killed" => summary = << >>)
    /\ [][summary' # summary => (pc' = "done" /\ summary = << >>)]_vars
    /\ [][pc # "done" /\ pc # "killed"]_vars

\* A run over two mutations has ended with its one summary.
C28_Witness ==
    /\ pc = "done"
    /\ Len(mutations) = 2
    /\ Len(MutationRequests) = 2
    /\ Len(summary) = 1
    /\ summary[1].Total = 2
====
